---- MODULE Spec2Model ----
(***************************************************************************)
(* The ledger of inr-expanses: customers, projects, transactions and the   *)
(* activity log, with the two database triggers that maintain              *)
(* projects.remaining_amount (initialize_project_remaining_amount and      *)
(* update_project_remaining_amount), the employees and their petty-cash    *)
(* advances, the presentation-layer handlers that read and write those     *)
(* tables, and the pages' fetches with the totals the dashboard derives.   *)
(*                                                                         *)
(* Monetary values (DECIMAL(15, 2)) are integers counting hundredths.      *)
(* A nullable or omitted input is the empty sequence, a supplied value v   *)
(* is the one-element sequence <<v>>.                                      *)
(***************************************************************************)
EXTENDS Integers, Sequences, FiniteSets, TLC

\* Bounds of the model: the number of rows a behaviour creates, modifies and
\* removes, for the three specifications below.
MaxWork == 5
MaxCreateWork == 6
MaxReplayWork == 6
MaxConcurrentWork == 5
MaxOfficeWork == 6
MaxDashboardWork == 4
MaxPagesWork == 3
MaxProjectsWork == 4
MaxEditWork == 5
MaxFormWork == 5
MaxDetailsWork == 5
MaxFetching == 2
MaxFormCustomers == 2
MaxFormProjects == 2

None == <<>>
Some(v) == <<v>>

\* CREATE TYPE public.transaction_type / fund_source / project_status
transaction_type == {"credit", "debit"}
fund_source == {"cash", "bank"}
project_status == {"prospect", "active", "completed", "cancelled"}
advance_status == {"open", "partially_returned", "closed"}

\* The status and the fund source the forms are driven with.
FormStatuses == {"active"}
FormFundSources == {"bank"}

VARIABLES
    customers,      \* public.customers: the set of ids of the rows
    projects,       \* public.projects: id -> row
    transactions,   \* public.transactions: id -> row
    activity_log,   \* public.activity_log: the rows in insertion order
    next_id,        \* the ids handed out so far, per table (ids are never reused)
    mutations,      \* history: number of transaction rows created, modified or removed
    lastMutation,   \* history: the last transaction mutation and the balance it met
    employees,      \* public.employees: the set of ids of the rows
    petty_cash_advance, \* public.petty_cash_advance: id -> row
    sessions,       \* the database sessions with a statement in progress
    overlapped,     \* history: a statement committed while another was in progress
                    \* on the same project
    pages,          \* the router and the page it shows: the element of the
                    \* current location, the page mounted, what its useState
                    \* holds and the fetches that have not settled yet
    scanned,        \* history: the transaction rows the last fetch of the dashboard
                    \* scanned, in the order it visited them
    auth,           \* what useAuth reports: the user, if any, and whether the
                    \* session is still being looked up
    form            \* the dialog of the Transactions page: formData, the
                    \* transaction being edited, the rows the list was fetched
                    \* with and the project-list fetches that have not settled

\* The employees and their advances.
office == <<employees, petty_cash_advance>>

\* What lives outside the committed tables.
views == <<pages, scanned, auth, form>>

clients == <<sessions, overlapped, views>>

vars == <<customers, projects, transactions, activity_log, next_id, mutations,
          lastMutation, office, clients>>

tables == <<customers, projects, transactions, activity_log>>

----------------------------------------------------------------------------
(* Rows and tables *)

\* The table `table` with `row` stored under row.id (insert or replace).
Put(table, row) ==
    [i \in DOMAIN table \cup {row.id} |-> IF i = row.id THEN row ELSE table[i]]

\* The table `table` without the rows whose ids are in `ids`.
Remove(table, ids) ==
    [i \in DOMAIN table \ ids |-> table[i]]

\* The elements of a sequence; for an optional value, the value if there is one.
Range(seq) == {seq[i] : i \in DOMAIN seq}

\* The value a request gives to a column, or `default` when it does not name it.
Column(input, name, default) ==
    IF name \in DOMAIN input THEN input[name] ELSE default

\* All orders in which the rows `ids` can be visited.
RECURSIVE Orders(_)
Orders(ids) ==
    IF ids = {} THEN {<<>>}
    ELSE UNION {{<<i>> \o rest : rest \in Orders(ids \ {i})} : i \in ids}

----------------------------------------------------------------------------
(* initialize_project_remaining_amount: BEFORE INSERT ON public.projects *)

\* Faulty variant: the supplied remaining_amount is kept. C3 must reject it.
initialize_KeepsSupplied(new) == new

initialize_project_remaining_amount(new) ==
    [new EXCEPT !.remaining_amount = new.estimated_total]

----------------------------------------------------------------------------
(* update_project_remaining_amount: AFTER INSERT OR UPDATE OR DELETE ON    *)
(* public.transactions, FOR EACH ROW                                       *)

\* Faulty variant: a debit leaves the balance alone. C1 must reject it.
InsertAmountChange_CreditOnly(new) ==
    IF new.transaction_type = "credit" THEN -new.amount ELSE 0

\* IF TG_OP = 'INSERT': the amount change of the new row.
InsertAmountChange(new) ==
    IF new.transaction_type = "credit" THEN -new.amount ELSE new.amount

\* Faulty variant: the old effect is reversed as if the row had always had its
\* new type. C5 must reject it.
UpdateAmountChange_NewTypeOnly(old, new) ==
    IF new.transaction_type = "credit"
    THEN old.amount - new.amount ELSE new.amount - old.amount

\* Faulty variant: the old effect is not reversed. C26 must reject it.
UpdateAmountChange_NotReversed(old, new) ==
    IF new.transaction_type = "credit" THEN -new.amount ELSE new.amount

\* ELSIF TG_OP = 'UPDATE': reverse the old effect, then apply the new one.
UpdateAmountChange(old, new) ==
    LET reverse == IF old.transaction_type = "credit"
                   THEN old.amount ELSE -old.amount
    IN  IF new.transaction_type = "credit"
        THEN reverse - new.amount ELSE reverse + new.amount

\* Faulty variant: the removal applies the effect once more. C7 must reject it.
DeleteAmountChange_NotReversed(old) ==
    IF old.transaction_type = "credit" THEN -old.amount ELSE old.amount

\* Faulty variant: only the removal of a credit is reversed. C8 must reject it.
DeleteAmountChange_CreditOnly(old) ==
    IF old.transaction_type = "credit" THEN old.amount ELSE 0

\* ELSIF TG_OP = 'DELETE': reverse the effect of the old row.
DeleteAmountChange(old) ==
    IF old.transaction_type = "credit" THEN old.amount ELSE -old.amount

\* Faulty variant: the balance is set to the change. C4 must reject it.
UpdateRemaining_Overwrites(projs, project_id, amount_change) ==
    [p \in DOMAIN projs |->
        IF p = project_id
        THEN [projs[p] EXCEPT !.remaining_amount = amount_change]
        ELSE projs[p]]

\* Faulty variant: the UPDATE has no WHERE clause. C25 must reject it.
UpdateRemaining_EveryRow(projs, project_id, amount_change) ==
    [p \in DOMAIN projs |->
        [projs[p] EXCEPT !.remaining_amount = @ + amount_change]]

\* UPDATE public.projects SET remaining_amount = remaining_amount + amount_change
\* WHERE id = project_id. No row matches when the project is not in the table.
UpdateRemaining(projs, project_id, amount_change) ==
    [p \in DOMAIN projs |->
        IF p = project_id
        THEN [projs[p] EXCEPT !.remaining_amount = @ + amount_change]
        ELSE projs[p]]

\* INSERT INTO public.activity_log (actor_type, action, data)
LogRow(data) ==
    [actor_type |-> "system", action |-> "project_balance_updated", data |-> data]

\* Faulty variant: no row is written when the balance did not move. C9 must
\* reject it.
InsertActivityLog_SkipsNoChange(log, data) ==
    IF data.amount_change = 0 THEN log ELSE Append(log, LogRow(data))

\* Faulty variant: the row takes the place of the last one. C14 must reject it.
InsertActivityLog_ReplacesLast(log, data) ==
    IF log = <<>> THEN <<LogRow(data)>>
    ELSE [log EXCEPT ![Len(log)] = LogRow(data)]

\* The INSERT statement that ends each branch of the trigger.
InsertActivityLog(log, data) == Append(log, LogRow(data))

\* Faulty variant: the row carries the amount instead of the signed change.
\* C10 must reject it.
InsertLogData_Unsigned(new, amount_change) ==
    [project_id |-> new.project_id,
     transaction_id |-> new.id,
     transaction_type |-> new.transaction_type,
     amount |-> new.amount,
     amount_change |-> new.amount]

InsertLogData(new, amount_change) ==
    [project_id |-> new.project_id,
     transaction_id |-> new.id,
     transaction_type |-> new.transaction_type,
     amount |-> new.amount,
     amount_change |-> amount_change]

\* Faulty variant: the row carries the difference of the amounts instead of
\* the change applied. C24 must reject it.
UpdateLogData_AmountDifference(old, new, amount_change) ==
    [project_id |-> new.project_id,
     transaction_id |-> new.id,
     old_amount |-> old.amount,
     new_amount |-> new.amount,
     amount_change |-> new.amount - old.amount]

UpdateLogData(old, new, amount_change) ==
    [project_id |-> new.project_id,
     transaction_id |-> new.id,
     old_amount |-> old.amount,
     new_amount |-> new.amount,
     amount_change |-> amount_change]

DeleteLogData(old, amount_change) ==
    [project_id |-> old.project_id,
     transaction_id |-> old.id,
     amount |-> old.amount,
     amount_change |-> amount_change,
     operation |-> "delete"]

\* The project whose balance the UPDATE branch adjusts.
UpdateTarget(old, new) == new.project_id

\* The trigger function on the pair db = [projects, activity_log]; old and new
\* are the rows OLD and NEW of the trigger. old is
\* unused for INSERT and new is unused for DELETE.
update_project_remaining_amount(TG_OP, old, new, db) ==
    CASE TG_OP = "INSERT" ->
            LET amount_change == InsertAmountChange(new) IN
            [projects |-> UpdateRemaining(db.projects, new.project_id, amount_change),
             activity_log |-> InsertActivityLog(db.activity_log,
                                     InsertLogData(new, amount_change))]
      [] TG_OP = "UPDATE" ->
            LET amount_change == UpdateAmountChange(old, new) IN
            [projects |-> UpdateRemaining(db.projects, UpdateTarget(old, new),
                                          amount_change),
             activity_log |-> InsertActivityLog(db.activity_log,
                                     UpdateLogData(old, new, amount_change))]
      [] TG_OP = "DELETE" ->
            LET amount_change == DeleteAmountChange(old) IN
            [projects |-> UpdateRemaining(db.projects, old.project_id, amount_change),
             activity_log |-> InsertActivityLog(db.activity_log,
                                     DeleteLogData(old, amount_change))]

\* The trigger fired FOR EACH ROW of a statement that deletes the rows `order`
\* of `txs`, in that order.
RECURSIVE DeleteEachRow(_, _, _)
DeleteEachRow(order, txs, db) ==
    IF order = <<>> THEN db
    ELSE DeleteEachRow(Tail(order), txs,
            update_project_remaining_amount("DELETE", txs[Head(order)],
                                            txs[Head(order)], db))

----------------------------------------------------------------------------
(* The pages: what each component's useState holds when it mounts. A list  *)
(* read in creation order is the sequence of the ids of its rows; a list   *)
(* read in name order is the set of them.                                  *)

Dashboard ==
    [stats |-> [activeProjects |-> 0, totalOutstanding |-> 0, cashOnHand |-> 0,
                bankBalance |-> 0, monthExpenses |-> 0, openAdvances |-> 0],
     topProjects |-> <<>>,
     recentTransactions |-> <<>>,
     loading |-> TRUE]

Projects == [projects |-> <<>>, customers |-> {}, loading |-> TRUE]

Transactions ==
    [transactions |-> <<>>, customers |-> {}, projects |-> {}, loading |-> TRUE]

PettyCash == [advances |-> <<>>, employees |-> {}, projects |-> {}, loading |-> TRUE]

\* ProjectDetails, routed with the id of /projects/:id.
ProjectDetails(id) ==
    [id |-> id, project |-> None, transactions |-> <<>>, loading |-> TRUE]

\* Nothing is mounted.
Blank == [route |-> "", pending |-> {}, state |-> <<>>]

\* No location is shown yet.
NoPage == [location |-> Blank, route |-> "", pending |-> {}, state |-> <<>>]

\* Transactions: useState of formData, and the dialog as the page mounts. An
\* id of 0 is the empty string of a select with nothing chosen.
FormData ==
    [customer_id |-> 0, project_id |-> 0, transaction_type |-> "credit",
     fund_source |-> "bank", amount |-> ""]

TransactionForm ==
    [formData |-> FormData, editingTransaction |-> None, dialogOpen |-> FALSE,
     rows |-> <<>>, fetching |-> <<>>, answered |-> 0]

\* The users that can sign in.
Users == {"user"}

\* useAuth before the session has been looked up.
AuthLoading == [loading |-> TRUE, user |-> None]

----------------------------------------------------------------------------
(* The store: statements on the tables, with their constraints and triggers *)

\* The sessions that run statements side by side, and a session with no
\* statement in progress.
Sessions == {"a", "b"}

Idle == [pc |-> "idle"]

Init ==
    /\ customers = {}
    /\ projects = <<>>
    /\ transactions = <<>>
    /\ activity_log = <<>>
    /\ next_id = [customers |-> 0, projects |-> 0, transactions |-> 0,
                  employees |-> 0, petty_cash_advance |-> 0]
    /\ mutations = 0
    /\ lastMutation = [op |-> "none", transaction_id |-> 0, before |-> 0]
    /\ employees = {}
    /\ petty_cash_advance = <<>>
    /\ sessions = [s \in Sessions |-> Idle]
    /\ overlapped = FALSE
    /\ pages = NoPage
    /\ scanned = <<>>
    /\ auth = AuthLoading
    /\ form = TransactionForm

\* The rows created and removed so far: customers and projects created and
\* deleted, and transaction rows created, modified and removed.
Work ==
    next_id.customers + (next_id.customers - Cardinality(customers))
    + next_id.projects + (next_id.projects - Cardinality(DOMAIN projects))
    + mutations

\* A statement that fails is rolled back: no table changes.
Rejected ==
    UNCHANGED vars

\* INSERT INTO public.customers
CreateCustomer ==
    /\ customers' = customers \cup {next_id.customers + 1}
    /\ next_id' = [next_id EXCEPT !.customers = @ + 1]
    /\ UNCHANGED <<projects, transactions, activity_log, mutations, lastMutation,
                   office, clients>>

\* The row INSERT INTO public.projects builds from `input` before the BEFORE
\* INSERT trigger: omitted columns take their DEFAULT.
ProjectRow(id, input) ==
    [id |-> id,
     customer_id |-> input.customer_id,
     estimated_total |-> input.estimated_total,
     remaining_amount |-> IF input.remaining_amount = None
                          THEN Some(0) ELSE input.remaining_amount,
     status |-> input.status]

\* NOT NULL on estimated_total and remaining_amount; customer_id REFERENCES
\* public.customers(id).
ProjectRowValid(row) ==
    /\ row.estimated_total # None
    /\ row.remaining_amount # None
    /\ row.customer_id \in customers

\* The stored form of a valid row: the numeric columns hold numbers.
StoredProject(row) ==
    [row EXCEPT !.estimated_total = row.estimated_total[1],
                !.remaining_amount = row.remaining_amount[1]]

\* INSERT INTO public.projects: defaults, then set_initial_remaining_amount,
\* then the constraints.
InsertProject(input) ==
    LET id == next_id.projects + 1
        row == initialize_project_remaining_amount(ProjectRow(id, input))
    IN  /\ IF ProjectRowValid(row)
           THEN /\ projects' = Put(projects, StoredProject(row))
                /\ next_id' = [next_id EXCEPT !.projects = id]
                /\ UNCHANGED <<customers, transactions, activity_log, mutations,
                               lastMutation, office, clients>>
           ELSE Rejected

\* UPDATE public.projects SET customer_id, estimated_total, status WHERE id = id,
\* and SET remaining_amount when the request names it. No row matches when the
\* project is gone; that is no error.
UpdateProject(id, input) ==
    IF id \notin DOMAIN projects
    THEN UNCHANGED vars
    ELSE IF input.estimated_total = None \/ input.customer_id \notin customers
    THEN Rejected
    ELSE /\ projects' = [projects EXCEPT
                            ![id].customer_id = input.customer_id,
                            ![id].estimated_total = input.estimated_total[1],
                            ![id].status = input.status,
                            ![id].remaining_amount =
                               Column(input, "remaining_amount", Some(@))[1]]
         /\ UNCHANGED <<customers, transactions, activity_log, next_id, mutations,
                        lastMutation, office, clients>>

\* The history of a statement that touched the transaction rows `ids`.
Touched(op, ids, before) ==
    /\ mutations' = mutations + Cardinality(ids)
    /\ lastMutation' =
          IF Cardinality(ids) = 1
          THEN [op |-> op, transaction_id |-> CHOOSE t \in ids : TRUE,
                before |-> before]
          ELSE IF ids = {} THEN lastMutation
          ELSE [op |-> "cascade", transaction_id |-> 0, before |-> 0]

\* Faulty variant: the amount is not checked against zero. C21 must reject it.
TransactionInputValid_Unchecked(input) ==
    /\ input.amount # None
    /\ input.project_id \in DOMAIN projects
    /\ input.customer_id \in customers
    /\ "related_employee_id" \in DOMAIN input =>
          \A e \in Range(input.related_employee_id) : e \in employees
    /\ "related_advance_id" \in DOMAIN input =>
          \A a \in Range(input.related_advance_id) : a \in DOMAIN petty_cash_advance

\* NOT NULL and CHECK (amount >= 0); project_id REFERENCES public.projects(id),
\* customer_id REFERENCES public.customers(id).
\* related_employee_id REFERENCES public.employees(id), related_advance_id
\* REFERENCES public.petty_cash_advance(id); both are nullable.
TransactionInputValid(input) ==
    /\ input.amount # None
    /\ input.amount[1] >= 0
    /\ input.project_id \in DOMAIN projects
    /\ input.customer_id \in customers
    /\ "related_employee_id" \in DOMAIN input =>
          \A e \in Range(input.related_employee_id) : e \in employees
    /\ "related_advance_id" \in DOMAIN input =>
          \A a \in Range(input.related_advance_id) : a \in DOMAIN petty_cash_advance

\* The row an INSERT writes: a link the request does not name is NULL.
TransactionRow(id, input) ==
    [id |-> id,
     project_id |-> input.project_id,
     customer_id |-> input.customer_id,
     transaction_type |-> input.transaction_type,
     fund_source |-> input.fund_source,
     amount |-> input.amount[1],
     related_employee_id |-> Column(input, "related_employee_id", None),
     related_advance_id |-> Column(input, "related_advance_id", None)]

\* INSERT INTO public.transactions, and the trigger for the new row.
InsertTransaction(input) ==
    LET id == next_id.transactions + 1 IN
    /\ IF TransactionInputValid(input)
       THEN LET new == TransactionRow(id, input)
                db == update_project_remaining_amount("INSERT", new, new,
                        [projects |-> projects, activity_log |-> activity_log])
            IN  /\ transactions' = Put(transactions, new)
                /\ projects' = db.projects
                /\ activity_log' = db.activity_log
                /\ next_id' = [next_id EXCEPT !.transactions = id]
                /\ Touched("insert", {id}, projects[new.project_id].remaining_amount)
                /\ UNCHANGED <<customers, office, clients>>
       ELSE Rejected

\* UPDATE public.transactions SET ... WHERE id = id, and the trigger for the row.
\* A link the request does not name keeps its stored value.
UpdateTransaction(id, input) ==
    /\ IF id \notin DOMAIN transactions
       THEN UNCHANGED vars
       ELSE IF TransactionInputValid(input)
       THEN LET old == transactions[id]
                new == [TransactionRow(id, input) EXCEPT
                          !.related_employee_id =
                             Column(input, "related_employee_id",
                                    old.related_employee_id),
                          !.related_advance_id =
                             Column(input, "related_advance_id",
                                    old.related_advance_id)]
                db == update_project_remaining_amount("UPDATE", old, new,
                        [projects |-> projects, activity_log |-> activity_log])
            IN  /\ transactions' = Put(transactions, new)
                /\ projects' = db.projects
                /\ activity_log' = db.activity_log
                /\ Touched("update", {id}, 0)
                /\ UNCHANGED <<customers, next_id, office, clients>>
       ELSE Rejected

\* DELETE FROM public.transactions WHERE id = id, and the trigger for the row.
DeleteTransaction(id) ==
    /\ IF id \notin DOMAIN transactions
       THEN UNCHANGED vars
       ELSE LET old == transactions[id]
                db == update_project_remaining_amount("DELETE", old, old,
                        [projects |-> projects, activity_log |-> activity_log])
            IN  /\ transactions' = Remove(transactions, {id})
                /\ projects' = db.projects
                /\ activity_log' = db.activity_log
                /\ Touched("delete", {id}, 0)
                /\ UNCHANGED <<customers, next_id, office, clients>>

\* Faulty variant: the transactions of a deleted customer stay when their
\* project stays. C16 must reject it.
Cascaded_ProjectsOnly(txs, gone, goneCustomers) ==
    {t \in DOMAIN txs : txs[t].project_id \in gone}

\* Faulty variant: the cascade of a project takes the transactions of its
\* customer's other projects along. C27 must reject it.
Cascaded_WholeCustomer(txs, gone, goneCustomers) ==
    {t \in DOMAIN txs :
        txs[t].customer_id \in goneCustomers
                                 \cup {projects[p].customer_id : p \in gone}}

\* The rows of `txs` that ON DELETE CASCADE removes with the projects `gone`
\* and the customers `goneCustomers`.
Cascaded(txs, gone, goneCustomers) ==
    {t \in DOMAIN txs : txs[t].project_id \in gone
                        \/ txs[t].customer_id \in goneCustomers}

\* petty_cash_advance.project_id REFERENCES public.projects(id) ON DELETE SET
\* NULL: the advances of the projects `gone` lose their project.
NullProject(advances, gone) ==
    [a \in DOMAIN advances |->
        IF advances[a].project_id \in {Some(p) : p \in gone}
        THEN [advances[a] EXCEPT !.project_id = None]
        ELSE advances[a]]

\* DELETE FROM public.projects / public.customers: the rows go first, then the
\* cascade removes the transactions, the trigger firing for each of them.
DeleteRows(gone, goneCustomers) ==
    LET rows == Cascaded(transactions, gone, goneCustomers) IN
    /\ \E order \in Orders(rows) :
          LET db == DeleteEachRow(order, transactions,
                        [projects |-> Remove(projects, gone),
                         activity_log |-> activity_log])
          IN  /\ projects' = db.projects
              /\ activity_log' = db.activity_log
    /\ transactions' = Remove(transactions, rows)
    /\ customers' = customers \ goneCustomers
    /\ petty_cash_advance' = NullProject(petty_cash_advance, gone)
    /\ Touched("delete", rows, 0)
    /\ UNCHANGED <<next_id, employees, clients>>

\* DELETE FROM public.projects WHERE id = id
DeleteProject(id) ==
    DeleteRows({id} \cap DOMAIN projects, {})

\* DELETE FROM public.customers WHERE id = id: projects.customer_id and
\* transactions.customer_id are both ON DELETE CASCADE.
DeleteCustomer(id) ==
    /\ id \in customers
    /\ DeleteRows({p \in DOMAIN projects : projects[p].customer_id = id}, {id})

\* INSERT INTO public.employees
CreateEmployee ==
    /\ employees' = employees \cup {next_id.employees + 1}
    /\ next_id' = [next_id EXCEPT !.employees = @ + 1]
    /\ UNCHANGED <<tables, mutations, lastMutation, petty_cash_advance, clients>>

\* NOT NULL on employee_id and the amounts; employee_id REFERENCES
\* public.employees(id), project_id REFERENCES public.projects(id) or is NULL.
AdvanceInputValid(input) ==
    /\ input.employee_id \in employees
    /\ \A p \in Range(input.project_id) : p \in DOMAIN projects
    /\ input.advance_amount # None

AdvanceRow(id, input) ==
    [id |-> id,
     employee_id |-> input.employee_id,
     project_id |-> input.project_id,
     advance_amount |-> input.advance_amount[1],
     expense_total |-> input.expense_total,
     returned_amount |-> input.returned_amount,
     status |-> input.status]

\* INSERT INTO public.petty_cash_advance
InsertAdvance(input) ==
    LET id == next_id.petty_cash_advance + 1 IN
    IF AdvanceInputValid(input)
    THEN /\ petty_cash_advance' = Put(petty_cash_advance, AdvanceRow(id, input))
         /\ next_id' = [next_id EXCEPT !.petty_cash_advance = id]
         /\ UNCHANGED <<tables, mutations, lastMutation, employees, clients>>
    ELSE Rejected

\* UPDATE public.petty_cash_advance SET expense_total, returned_amount, status
\* WHERE id = id. No row matches when the advance is gone; that is no error.
UpdateAdvance(id, changes) ==
    IF id \notin DOMAIN petty_cash_advance
    THEN UNCHANGED vars
    ELSE /\ petty_cash_advance' = [petty_cash_advance EXCEPT
                                     ![id].expense_total = changes.expense_total,
                                     ![id].returned_amount = changes.returned_amount,
                                     ![id].status = changes.status]
         /\ UNCHANGED <<tables, next_id, mutations, lastMutation, employees, clients>>

\* Faulty variant: the links to the advances that go are left. C17 must reject it.
ClearedLinks_EmployeesOnly(txs, goneEmployees, goneAdvances) ==
    {<<t, "related_employee_id">> : t \in {u \in DOMAIN txs :
        txs[u].related_employee_id \in {Some(e) : e \in goneEmployees}}}

\* The links <<transaction, column>> that ON DELETE SET NULL clears with the
\* employees `goneEmployees` and the advances `goneAdvances`.
ClearedLinks(txs, goneEmployees, goneAdvances) ==
    {<<t, "related_employee_id">> : t \in {u \in DOMAIN txs :
        txs[u].related_employee_id \in {Some(e) : e \in goneEmployees}}}
    \cup
    {<<t, "related_advance_id">> : t \in {u \in DOMAIN txs :
        txs[u].related_advance_id \in {Some(a) : a \in goneAdvances}}}

\* UPDATE public.transactions SET <column> = NULL for each link of `order`, the
\* trigger firing for each row updated; db = [transactions, projects, activity_log].
RECURSIVE ClearEachLink(_, _)
ClearEachLink(order, db) ==
    IF order = <<>> THEN db
    ELSE LET t == Head(order)[1]
             old == db.transactions[t]
             new == [old EXCEPT ![Head(order)[2]] = None]
             after == update_project_remaining_amount("UPDATE", old, new,
                         [projects |-> db.projects, activity_log |-> db.activity_log])
         IN  ClearEachLink(Tail(order),
                [transactions |-> Put(db.transactions, new),
                 projects |-> after.projects,
                 activity_log |-> after.activity_log])

\* The history of a statement that cleared the links `links`.
TouchedLinks(links) ==
    /\ mutations' = mutations + Cardinality(links)
    /\ lastMutation' =
          IF Cardinality(links) = 1
          THEN [op |-> "update",
                transaction_id |-> (CHOOSE l \in links : TRUE)[1], before |-> 0]
          ELSE IF links = {} THEN lastMutation
          ELSE [op |-> "cascade", transaction_id |-> 0, before |-> 0]

\* DELETE FROM public.employees / public.petty_cash_advance: the advances of a
\* deleted employee go with it (ON DELETE CASCADE), and the transactions that
\* link to a deleted row stay, the link set to NULL.
DeleteOffice(goneEmployees, goneAdvances) ==
    LET links == ClearedLinks(transactions, goneEmployees, goneAdvances) IN
    /\ \E order \in Orders(links) :
          LET db == ClearEachLink(order, [transactions |-> transactions,
                                          projects |-> projects,
                                          activity_log |-> activity_log])
          IN  /\ transactions' = db.transactions
              /\ projects' = db.projects
              /\ activity_log' = db.activity_log
    /\ employees' = employees \ goneEmployees
    /\ petty_cash_advance' = Remove(petty_cash_advance, goneAdvances)
    /\ TouchedLinks(links)
    /\ UNCHANGED <<customers, next_id, clients>>

\* DELETE FROM public.employees WHERE id = id
DeleteEmployee(id) ==
    /\ id \in employees
    /\ DeleteOffice({id}, {a \in DOMAIN petty_cash_advance :
                             petty_cash_advance[a].employee_id = id})

\* DELETE FROM public.petty_cash_advance WHERE id = id
DeleteAdvance(id) ==
    /\ id \in DOMAIN petty_cash_advance
    /\ DeleteOffice({}, {id})

----------------------------------------------------------------------------
(* Statements of two sessions side by side. Each request of a page is one   *)
(* statement, run in its own database transaction at READ COMMITTED: the    *)
(* row is written, the AFTER ... FOR EACH ROW trigger runs inside the same  *)
(* transaction, and the commit makes the row, the adjusted balance and the  *)
(* log row visible together. A row written by a transaction in progress is  *)
(* locked until that transaction ends.                                      *)

\* The transaction row t is being updated or deleted by a session other than s.
RowLocked(s, t) ==
    \E o \in Sessions \ {s} :
        /\ sessions[o].pc # "idle"
        /\ sessions[o].op # "INSERT"
        /\ sessions[o].old.id = t

\* The project whose balance the trigger of the statement addresses.
Target(session) ==
    CASE session.op = "INSERT" -> session.new.project_id
      [] session.op = "UPDATE" -> UpdateTarget(session.old, session.new)
      [] session.op = "DELETE" -> session.old.project_id

\* Faulty variant: the UPDATE does not wait for the row. C12 must reject it.
CanLock_WithoutWaiting(s, p) == TRUE

\* UPDATE public.projects ... WHERE id = p takes the lock of the row: session s
\* can proceed when no other transaction in progress has updated the row.
CanLock(s, p) ==
    \A o \in Sessions \ {s} :
        ~(sessions[o].pc = "adjusted" /\ Target(sessions[o]) = p)

\* Session s starts a statement and writes its row, not yet visible to others.
\* An UPDATE or DELETE of a row locked by another session waits for it.
SessionWrite(s, op, id, input) ==
    /\ sessions[s].pc = "idle"
    /\ IF op = "INSERT"
       THEN IF TransactionInputValid(input)
            THEN LET new == TransactionRow(next_id.transactions + 1, input) IN
                 /\ sessions' = [sessions EXCEPT ![s] =
                        [pc |-> "written", op |-> op, old |-> new, new |-> new]]
                 /\ next_id' = [next_id EXCEPT !.transactions = @ + 1]
                 /\ UNCHANGED <<tables, mutations, lastMutation, office, overlapped, views>>
            ELSE Rejected
       ELSE IF id \notin DOMAIN transactions
       THEN UNCHANGED vars
       ELSE /\ ~RowLocked(s, id)
            /\ IF op = "DELETE"
               THEN /\ sessions' = [sessions EXCEPT ![s] =
                           [pc |-> "written", op |-> op, old |-> transactions[id],
                            new |-> transactions[id]]]
                    /\ UNCHANGED <<tables, next_id, mutations, lastMutation,
                                   office, overlapped, views>>
               ELSE IF TransactionInputValid(input)
               THEN LET old == transactions[id]
                        new == [TransactionRow(id, input) EXCEPT
                                  !.related_employee_id = old.related_employee_id,
                                  !.related_advance_id = old.related_advance_id]
                    IN  /\ sessions' = [sessions EXCEPT ![s] =
                               [pc |-> "written", op |-> op, old |-> old, new |-> new]]
                        /\ UNCHANGED <<tables, next_id, mutations, lastMutation,
                                       office, overlapped, views>>
               ELSE Rejected

\* The trigger of session s runs: its UPDATE locks the project row and adds the
\* change to the row's current value, and its INSERT writes the log row.
SessionTrigger(s) ==
    LET session == sessions[s]
        p == Target(session)
        db == update_project_remaining_amount(session.op, session.old, session.new,
                 [projects |-> projects, activity_log |-> <<>>])
    IN  /\ session.pc = "written"
        /\ CanLock(s, p)
        /\ sessions' = [sessions EXCEPT ![s] =
               [pc |-> "adjusted", op |-> session.op, old |-> session.old,
                new |-> session.new,
                remaining_amount |-> IF p \in DOMAIN db.projects
                                     THEN Some(db.projects[p].remaining_amount)
                                     ELSE None,
                entry |-> db.activity_log[1]]]
        /\ UNCHANGED <<tables, next_id, mutations, lastMutation, office, overlapped, views>>

\* Faulty variant: the row becomes visible without the work of its trigger.
\* C13 must reject it.
CommitEffects_RowOnly(session, db) ==
    [transactions |-> IF session.op = "DELETE"
                      THEN Remove(db.transactions, {session.old.id})
                      ELSE Put(db.transactions, session.new),
     projects |-> db.projects,
     activity_log |-> db.activity_log]

\* What the commit of the statement of `session` makes of the committed tables
\* db = [transactions, projects, activity_log].
CommitEffects(session, db) ==
    LET p == Target(session) IN
    [transactions |-> IF session.op = "DELETE"
                      THEN Remove(db.transactions, {session.old.id})
                      ELSE Put(db.transactions, session.new),
     projects |-> [q \in DOMAIN db.projects |->
                     IF q = p /\ session.remaining_amount # None
                     THEN [db.projects[q] EXCEPT
                             !.remaining_amount = session.remaining_amount[1]]
                     ELSE db.projects[q]],
     activity_log |-> Append(db.activity_log, session.entry)]

\* The transaction of session s commits.
SessionCommit(s) ==
    LET session == sessions[s]
        p == Target(session)
        db == CommitEffects(session, [transactions |-> transactions,
                                      projects |-> projects,
                                      activity_log |-> activity_log])
    IN  /\ session.pc = "adjusted"
        /\ transactions' = db.transactions
        /\ projects' = db.projects
        /\ activity_log' = db.activity_log
        /\ Touched(CASE session.op = "INSERT" -> "insert"
                     [] session.op = "UPDATE" -> "update"
                     [] session.op = "DELETE" -> "delete",
                   {session.old.id},
                   IF session.op = "INSERT" /\ p \in DOMAIN projects
                   THEN projects[p].remaining_amount ELSE 0)
        /\ sessions' = [sessions EXCEPT ![s] = Idle]
        /\ overlapped' = (overlapped \/ \E o \in Sessions \ {s} :
                              /\ sessions[o].pc = "written"
                              /\ Target(sessions[o]) = p)
        /\ UNCHANGED <<customers, next_id, office, views>>

\* The transaction of session s is rolled back (an error, a lost connection, a
\* crash of the server): nothing it wrote becomes visible.
SessionAbort(s) ==
    /\ sessions[s].pc # "idle"
    /\ sessions' = [sessions EXCEPT ![s] = Idle]
    /\ UNCHANGED <<tables, next_id, mutations, lastMutation, office, overlapped, views>>

----------------------------------------------------------------------------
(* The presentation layer: the handlers of the Projects and Transactions pages *)

\* The rows a page can hold in its lists: those ever created, since a list
\* fetched earlier can name a row that is gone by now.
Listed(table) == 1 .. next_id[table]

\* parseFloat as the request body carries it: the number a numeral denotes, and
\* null for NaN (the empty input).
parseFloat(text) ==
    IF \E n \in -9 .. 9 : ToString(n) = text
    THEN Some(CHOOSE n \in -9 .. 9 : ToString(n) = text)
    ELSE None

\* Projects: formData, the Total Value input left empty or filled.
ProjectForms ==
    [customer_id : Listed("customers"),
     estimated_total : {"", "1", "2"},
     status : FormStatuses]

\* Transactions: formData, the Amount input zero or positive, and, for the
\* default type, left empty or negative.
TransactionForms ==
    [customer_id : Listed("customers"),
     project_id : Listed("projects"),
     transaction_type : transaction_type,
     fund_source : FormFundSources,
     amount : {"0", "1"}]
    \cup
    [customer_id : Listed("customers"),
     project_id : Listed("projects"),
     transaction_type : {"credit"},
     fund_source : FormFundSources,
     amount : {"", "-1"}]

\* Faulty variant: the request carries a remaining_amount, the new total.
\* C15 must reject it.
ProjectsHandleSubmit_SendsRemaining(editingProject, formData) ==
    LET projectData == [customer_id |-> formData.customer_id,
                        estimated_total |-> parseFloat(formData.estimated_total),
                        status |-> formData.status,
                        remaining_amount |-> parseFloat(formData.estimated_total)]
    IN  IF editingProject # None
        THEN UpdateProject(editingProject[1], projectData)
        ELSE InsertProject(projectData)

\* Projects.handleSubmit
ProjectsHandleSubmit(editingProject, formData) ==
    LET projectData == [customer_id |-> formData.customer_id,
                        estimated_total |-> parseFloat(formData.estimated_total),
                        status |-> formData.status]
    IN  IF editingProject # None
        THEN UpdateProject(editingProject[1], projectData)
        ELSE InsertProject([customer_id |-> projectData.customer_id,
                            estimated_total |-> projectData.estimated_total,
                            status |-> projectData.status,
                            remaining_amount |-> None])

\* Projects.handleDelete
ProjectsHandleDelete(id) ==
    DeleteProject(id)

\* Transactions.handleSubmit
TransactionsHandleSubmit(editingTransaction, formData) ==
    LET txData == [formData EXCEPT !.amount = parseFloat(formData.amount)]
    IN  IF editingTransaction # None
        THEN UpdateTransaction(editingTransaction[1], txData)
        ELSE InsertTransaction(txData)

\* Transactions.handleDelete
TransactionsHandleDelete(id) ==
    DeleteTransaction(id)

\* Transactions.handleSubmit and handleDelete of the client of session s, the
\* statement taken step by step.
TransactionsSessionSubmit(s, editingTransaction, formData) ==
    LET txData == [formData EXCEPT !.amount = parseFloat(formData.amount)]
    IN  IF editingTransaction # None
        THEN SessionWrite(s, "UPDATE", editingTransaction[1], txData)
        ELSE SessionWrite(s, "INSERT", 0, txData)

TransactionsSessionDelete(s, id) ==
    SessionWrite(s, "DELETE", id, None)

\* PettyCash: formData, the Amount input left empty or filled, the project
\* chosen or not.
AdvanceForms ==
    [employee_id : Listed("employees"),
     project_id : {None} \cup {Some(p) : p \in Listed("projects")},
     advance_amount : {"", "2"},
     type : {"personal", "office"}]

\* PettyCash: completeData.
CompleteForms ==
    [expense_total : {"", "1", "2"},
     returned_amount : {"0", "1"}]

\* PettyCash.handleSubmit
PettyCashHandleSubmit(formData) ==
    IF formData.type = "office" /\ formData.project_id = None
    THEN UNCHANGED vars
    ELSE LET advanceData ==
                [employee_id |-> formData.employee_id,
                 project_id |-> IF formData.type = "office"
                                THEN formData.project_id ELSE None,
                 advance_amount |-> parseFloat(formData.advance_amount),
                 expense_total |-> 0,
                 returned_amount |-> 0,
                 status |-> "open"]
         IN  InsertAdvance(advanceData)

\* Faulty variant: the amounts are written without comparing their sum with the
\* advance. C18 must reject it.
PettyCashHandleComplete_Unchecked(selectedAdvance, completeData) ==
    IF selectedAdvance \notin DOMAIN petty_cash_advance
    THEN UNCHANGED vars
    ELSE LET expenseTotal == parseFloat(completeData.expense_total)
             returnedAmount == parseFloat(completeData.returned_amount)
         IN  IF expenseTotal = None \/ returnedAmount = None
             THEN UNCHANGED vars
             ELSE UpdateAdvance(selectedAdvance,
                     [expense_total |-> expenseTotal[1],
                      returned_amount |-> returnedAmount[1],
                      status |-> "closed"])

\* PettyCash.handleComplete for the advance selected in the list. The list can
\* name an advance that is gone by now; the advance_amount of one that is still
\* there is the one the list shows, since no request changes it. A sum with
\* NaN differs from every amount.
PettyCashHandleComplete(selectedAdvance, completeData) ==
    IF selectedAdvance \notin DOMAIN petty_cash_advance
    THEN UNCHANGED vars
    ELSE LET expenseTotal == parseFloat(completeData.expense_total)
             returnedAmount == parseFloat(completeData.returned_amount)
             advanceAmount == petty_cash_advance[selectedAdvance].advance_amount
         IN  IF \/ expenseTotal = None
                \/ returnedAmount = None
                \/ expenseTotal[1] + returnedAmount[1] # advanceAmount
             THEN UNCHANGED vars
             ELSE UpdateAdvance(selectedAdvance,
                     [expense_total |-> expenseTotal[1],
                      returned_amount |-> returnedAmount[1],
                      status |-> "closed"])

\* A request to the store that links a new transaction to an employee and, or
\* not, to an advance, as the petty-cash transactions of the seed data are.
LinkedTransactions ==
    [customer_id : Listed("customers"),
     project_id : Listed("projects"),
     transaction_type : {"debit"},
     fund_source : {"cash"},
     amount : {Some(1)},
     related_employee_id : {Some(e) : e \in Listed("employees")},
     related_advance_id : {None} \cup
                          {Some(a) : a \in Listed("petty_cash_advance")}]

\* A request to the store that names remaining_amount for a new project.
SuppliedProjects ==
    [customer_id : Listed("customers"),
     estimated_total : {Some(1), Some(2)},
     status : FormStatuses,
     remaining_amount : {Some(0), Some(1)}]

----------------------------------------------------------------------------
(* The pages: the router, and the fetches each page issues when it mounts. *)
(* A fetch settles in a step of its own, with the rows the tables hold at  *)
(* that moment or with an error.                                           *)

Max(a, b) == IF a >= b THEN a ELSE b
Min(a, b) == IF a <= b THEN a ELSE b

\* The ids in decreasing order: ORDER BY created_at DESC.
RECURSIVE Descending(_)
Descending(ids) ==
    IF ids = {} THEN <<>>
    ELSE LET last == CHOOSE i \in ids : \A j \in ids : j <= i
         IN  <<last>> \o Descending(ids \ {last})

\* LIMIT n
Limit(rows, n) == SubSeq(rows, 1, Min(n, Len(rows)))

\* The fetches useEffect issues when the page mounts.
Effects(route) ==
    CASE route = "Dashboard" -> {"fetchDashboardData"}
      [] route = "Projects" -> {"fetchProjects", "fetchCustomers"}
      [] route = "Transactions" -> {"fetchTransactions", "fetchCustomers"}
      [] route = "PettyCash" -> {"fetchAdvances", "fetchEmployees", "fetchProjects"}
      [] route = "ProjectDetails" -> {"fetchProjectDetails", "fetchTransactions"}
      [] OTHER -> {}

\* The routes whose element is wrapped in ProtectedRoute, those of the pages
\* modelled here.
Routes == {"Dashboard", "Projects", "Transactions", "PettyCash", "ProjectDetails"}

\* The page of `route` as it mounts: a fresh component and its fetches.
Page(route, state) == [route |-> route, pending |-> Effects(route), state |-> state]

\* Faulty variant: the page is rendered whatever useAuth reports. C23 must
\* reject it.
ProtectedRoute_Open(useAuth, children) == children

\* ProtectedRoute: "Loading..." while the session is looked up, <Navigate
\* to="/auth" /> without a user, the page otherwise.
ProtectedRoute(useAuth, children) ==
    IF useAuth.loading THEN Blank
    ELSE IF useAuth.user = None THEN Page("Auth", <<>>)
    ELSE children

\* What the router shows for the element `location` under `useAuth`, `shown`
\* being what it showed before: a redirect replaces the location, and a page
\* that is already mounted for the location stays as it is.
Rendered(location, useAuth, shown) ==
    LET element == IF location.route \in Routes
                   THEN ProtectedRoute(useAuth, location) ELSE location
    IN  IF element.route \notin {"", location.route}
        THEN [location |-> element, route |-> element.route,
              pending |-> element.pending, state |-> element.state]
        ELSE IF shown.location = location /\ shown.route = element.route
        THEN shown
        ELSE [location |-> location, route |-> element.route,
              pending |-> element.pending, state |-> element.state]

\* The dialog of the Transactions page lives as long as the page is mounted.
Mounted(shown, dialog) ==
    IF shown.route = "Transactions" THEN dialog ELSE TransactionForm

\* The client goes to the location of `route`; the page it leaves is unmounted,
\* and what that page still awaited is dropped with it.
Navigate(route, state) ==
    /\ pages.location.route # route
    /\ pages' = Rendered(Page(route, state), auth, pages)
    /\ form' = Mounted(pages', form)
    /\ UNCHANGED <<tables, next_id, mutations, lastMutation, office, sessions,
                   overlapped, scanned, auth>>

\* The auth collaborator reports a change: the session looked up, a sign-in or
\* a sign-out. The route in view is rendered again.
AuthStateChange(user) ==
    /\ auth' = [loading |-> FALSE, user |-> user]
    /\ auth' # auth
    /\ pages' = Rendered(pages.location, auth', pages)
    /\ form' = Mounted(pages', form)
    /\ UNCHANGED <<tables, next_id, mutations, lastMutation, office, sessions,
                   overlapped, scanned>>

\* Layout.handleLogout, from the layout around a page: signOut, and on success
\* navigate('/auth').
LayoutHandleLogout(ok) ==
    /\ pages.route \in Routes
    /\ IF ok
       THEN /\ auth' = [loading |-> FALSE, user |-> None]
            /\ pages' = Rendered(Page("Auth", <<>>), auth', pages)
            /\ form' = Mounted(pages', form)
            /\ UNCHANGED <<tables, next_id, mutations, lastMutation, office,
                           sessions, overlapped, scanned>>
       ELSE UNCHANGED vars

\* The fetch `fetch` of the page shown settles and leaves the component in `state`.
Settle(route, fetch, state) ==
    /\ pages.route = route
    /\ fetch \in pages.pending
    /\ pages' = [pages EXCEPT !.pending = @ \ {fetch}, !.state = state]
    /\ UNCHANGED <<tables, next_id, mutations, lastMutation, office, sessions,
                   overlapped, auth>>

\* try { if (error) throw error; set(data || []) } catch { toast }: the setter
\* `list` receives `data` unless the query failed.
Fetched(state, list, data, ok) ==
    IF ok THEN [state EXCEPT ![list] = data] ELSE state

\* finally { setLoading(false) }
Loaded(state) == [state EXCEPT !.loading = FALSE]

----------------------------------------------------------------------------
(* Dashboard.fetchDashboardData *)

\* The sum of f[t] over the rows t in `ids`.
RECURSIVE Sum(_, _)
Sum(f, ids) ==
    IF ids = {} THEN 0
    ELSE LET t == CHOOSE x \in ids : TRUE IN f[t] + Sum(f, ids \ {t})

\* parseFloat(String(value || 0)) of a numeric column
Amount(value) == parseFloat(ToString(value))[1]

\* Faulty variant: the total of the fund is clamped at every row. C19 must
\* reject it.
ScanTransaction_ClampsEachRow(totals, t, startOfMonth) ==
    LET amount == Amount(t.amount)
        signed == IF t.transaction_type = "credit" THEN amount ELSE -amount
        funded == IF t.fund_source = "cash"
                  THEN [totals EXCEPT !.cashOnHand = Max(0, @ + signed)]
                  ELSE [totals EXCEPT !.bankBalance = Max(0, @ + signed)]
    IN  IF t.transaction_type = "debit" /\ t.id >= startOfMonth
        THEN [funded EXCEPT !.monthExpenses = @ + amount]
        ELSE funded

\* One turn of transactions.forEach: the row's amount is added to the total of
\* its fund, signed by its type, and to the month's expenses when it is a debit
\* created on or after startOfMonth.
ScanTransaction(totals, t, startOfMonth) ==
    LET amount == Amount(t.amount)
        signed == IF t.transaction_type = "credit" THEN amount ELSE -amount
        funded == IF t.fund_source = "cash"
                  THEN [totals EXCEPT !.cashOnHand = @ + signed]
                  ELSE [totals EXCEPT !.bankBalance = @ + signed]
    IN  IF t.transaction_type = "debit" /\ t.id >= startOfMonth
        THEN [funded EXCEPT !.monthExpenses = @ + amount]
        ELSE funded

\* transactions?.forEach over the rows in the order the query returned them.
RECURSIVE ForEach(_, _, _)
ForEach(rows, totals, startOfMonth) ==
    IF rows = <<>> THEN totals
    ELSE ForEach(Tail(rows), ScanTransaction(totals, Head(rows), startOfMonth),
                 startOfMonth)

\* The five queries of the dashboard, and the ways they can end: each returns
\* its rows or an error, or a request throws.
DashboardQueries ==
    {"projects", "transactions", "advances", "topProjects", "recentTransactions"}

DashboardOutcomes == [DashboardQueries \cup {"threw"} -> BOOLEAN]

\* .eq('status', 'active')
ActiveProjects == {p \in DOMAIN projects : projects[p].status = "active"}

\* ORDER BY remaining_amount DESC
ByRemaining(order) ==
    \A i, j \in DOMAIN order :
        i < j => projects[order[i]].remaining_amount
                 >= projects[order[j]].remaining_amount

\* fetchDashboardData settles. `order` is the order in which the unordered
\* SELECT returned all the transactions, `top` the active projects in the order
\* of the fourth query, and the rows with an id from startOfMonth on are those
\* created this month.
FetchDashboardData(outcome, order, top, startOfMonth) ==
    LET active == Range(top)
        open == {a \in DOMAIN petty_cash_advance :
                    petty_cash_advance[a].status \in {"open", "partially_returned"}}
        rows == IF outcome.transactions
                THEN [i \in DOMAIN order |-> transactions[order[i]]] ELSE <<>>
        totals == ForEach(rows,
                          [cashOnHand |-> 0, bankBalance |-> 0, monthExpenses |-> 0],
                          startOfMonth)
        stats == [activeProjects |-> IF outcome.projects THEN Cardinality(active) ELSE 0,
                  totalOutstanding |->
                      IF outcome.projects
                      THEN Sum([p \in active |-> Amount(projects[p].remaining_amount)],
                               active)
                      ELSE 0,
                  cashOnHand |-> Max(0, totals.cashOnHand),
                  bankBalance |-> Max(0, totals.bankBalance),
                  monthExpenses |-> totals.monthExpenses,
                  openAdvances |-> IF outcome.advances THEN Cardinality(open) ELSE 0]
        shown == [stats |-> stats,
                  topProjects |-> IF outcome.topProjects THEN Limit(top, 5) ELSE <<>>,
                  recentTransactions |->
                      IF outcome.recentTransactions
                      THEN Limit(Descending(DOMAIN transactions), 10) ELSE <<>>,
                  loading |-> pages.state.loading]
    IN  /\ ByRemaining(top)
        /\ Settle("Dashboard", "fetchDashboardData",
                  Loaded(IF outcome.threw THEN pages.state ELSE shown))
        /\ scanned' = IF outcome.threw THEN <<>> ELSE rows
        /\ UNCHANGED form

----------------------------------------------------------------------------
(* The fetches of Projects, Transactions, PettyCash and ProjectDetails *)

ProjectsFetchProjects(ok) ==
    /\ Settle("Projects", "fetchProjects",
              Loaded(Fetched(pages.state, "projects", Descending(DOMAIN projects), ok)))
    /\ UNCHANGED <<scanned, form>>

ProjectsFetchCustomers(ok) ==
    /\ Settle("Projects", "fetchCustomers",
              Fetched(pages.state, "customers", customers, ok))
    /\ UNCHANGED <<scanned, form>>

TransactionsFetchTransactions(ok) ==
    /\ Settle("Transactions", "fetchTransactions",
              Loaded(Fetched(pages.state, "transactions",
                             Descending(DOMAIN transactions), ok)))
    /\ form' = [form EXCEPT !.rows = IF ok THEN transactions ELSE @]
    /\ UNCHANGED scanned

TransactionsFetchCustomers(ok) ==
    /\ Settle("Transactions", "fetchCustomers",
              Fetched(pages.state, "customers", customers, ok))
    /\ UNCHANGED <<scanned, form>>

PettyCashFetchAdvances(ok) ==
    /\ Settle("PettyCash", "fetchAdvances",
              Loaded(Fetched(pages.state, "advances",
                             Descending(DOMAIN petty_cash_advance), ok)))
    /\ UNCHANGED <<scanned, form>>

PettyCashFetchEmployees(ok) ==
    /\ Settle("PettyCash", "fetchEmployees",
              Fetched(pages.state, "employees", employees, ok))
    /\ UNCHANGED <<scanned, form>>

PettyCashFetchProjects(ok) ==
    /\ Settle("PettyCash", "fetchProjects",
              Fetched(pages.state, "projects", DOMAIN projects, ok))
    /\ UNCHANGED <<scanned, form>>

\* .eq('id', id).single() is an error when no row has that id.
ProjectDetailsFetchProjectDetails(ok) ==
    LET id == pages.state.id IN
    /\ Settle("ProjectDetails", "fetchProjectDetails",
              IF ok /\ id \in DOMAIN projects
              THEN [pages.state EXCEPT !.project = Some(projects[id])]
              ELSE pages.state)
    /\ UNCHANGED <<scanned, form>>

\* The rows of the transactions `order`, as the tables hold them.
Select(order) == [i \in DOMAIN order |-> transactions[order[i]]]

ProjectDetailsFetchTransactions(ok) ==
    LET id == pages.state.id IN
    /\ Settle("ProjectDetails", "fetchTransactions",
              Loaded(Fetched(pages.state, "transactions",
                             Select(Descending({t \in DOMAIN transactions :
                                                  transactions[t].project_id = id})),
                             ok)))
    /\ UNCHANGED <<scanned, form>>

\* Number(value) of a numeric column
Number(value) == parseFloat(ToString(value))[1]

\* transactions.filter((t) => t.transaction_type === 'credit')
\*              .reduce((sum, t) => sum + Number(t.amount), 0)
RECURSIVE Paid(_)
Paid(rows) ==
    IF rows = <<>> THEN 0
    ELSE (IF Head(rows).transaction_type = "credit"
          THEN Number(Head(rows).amount) ELSE 0) + Paid(Tail(rows))

\* ProjectDetails: the profit rendered from the project and the transactions
\* the component holds.
Profit(state) ==
    LET project == state.project[1]
        totalValue == Number(project.estimated_total)
        paid == Paid(state.transactions)
        pending == Number(project.remaining_amount)
    IN  paid - (totalValue - pending)

\* What the page shown renders in place of its content while it loads.
\* ProjectDetails: if (loading || !project) return <div>Loading...</div>
LoadingShown(route) ==
    /\ pages.route = route
    /\ \/ pages.state.loading
       \/ route = "ProjectDetails" /\ pages.state.project = None

----------------------------------------------------------------------------
(* The dialog of the Transactions page: the customer and project selects,  *)
(* the edit dialog, resetForm and the project-list fetches. A handler runs *)
(* to its first await in one step; what follows the await is a later step. *)

\* The sequence `seq` without its i-th element.
Without(seq, i) == SubSeq(seq, 1, i - 1) \o SubSeq(seq, i + 1, Len(seq))

\* The component is mounted, with what it holds changed to `dialog` and the
\* option list of the project select to `options`.
FormStep(dialog, options) ==
    /\ pages.route = "Transactions"
    /\ form' = dialog
    /\ pages' = [pages EXCEPT !.state.projects = options]
    /\ UNCHANGED <<tables, next_id, mutations, lastMutation, office, sessions,
                   overlapped, scanned, auth>>

\* useEffect(..., [formData.customer_id]): the fetches in flight after formData
\* changed from `before` to `after`.
CustomerEffect(fetching, before, after) ==
    IF after.customer_id # before.customer_id /\ after.customer_id # 0
    THEN Append(fetching, after.customer_id) ELSE fetching

\* The project-list fetches in flight stay below this number.
FetchingRoom == Len(form.fetching) < MaxFetching

\* <DialogTrigger>: onOpenChange(true)
FormOpenDialog ==
    /\ ~form.dialogOpen
    /\ FormStep([form EXCEPT !.dialogOpen = TRUE], pages.state.projects)

\* resetForm: setFormData(the initial formData); setProjects([]);
\* setEditingTransaction(null)
ResetForm(dialog) ==
    [dialog EXCEPT !.formData = FormData, !.editingTransaction = None]

\* onOpenChange(false): setDialogOpen(false); resetForm()
FormCloseDialog ==
    /\ form.dialogOpen
    /\ FormStep(ResetForm([form EXCEPT !.dialogOpen = FALSE]), {})

\* The Cancel button: setDialogOpen(false), and nothing else.
FormCancel ==
    /\ form.dialogOpen
    /\ FormStep([form EXCEPT !.dialogOpen = FALSE], pages.state.projects)

\* The customer select: setFormData({...formData, customer_id: value,
\* project_id: ''}), and the effect on formData.customer_id.
FormSelectCustomer(value) ==
    /\ form.dialogOpen
    /\ value \in pages.state.customers
    /\ value # form.formData.customer_id
    /\ FetchingRoom
    /\ LET after == [form.formData EXCEPT !.customer_id = value, !.project_id = 0]
       IN  FormStep([form EXCEPT !.formData = after,
                                 !.fetching = CustomerEffect(@, form.formData, after)],
                    pages.state.projects)

\* The project select, disabled while no customer is chosen; its items are the
\* projects the component holds.
FormSelectProject(value) ==
    /\ form.dialogOpen
    /\ form.formData.customer_id # 0
    /\ value \in pages.state.projects
    /\ value # form.formData.project_id
    /\ FormStep([form EXCEPT !.formData.project_id = value], pages.state.projects)

\* The amount input.
FormChangeAmount(value) ==
    /\ form.dialogOpen
    /\ value # form.formData.amount
    /\ FormStep([form EXCEPT !.formData.amount = value], pages.state.projects)

\* openEditDialog(transaction), from the row of a listed transaction: the row
\* is the one fetchTransactions returned. The rows are behind the dialog while
\* it is open. The handler calls fetchProjectsByCustomer itself, and the effect
\* on formData.customer_id calls it again when the customer changed.
FormOpenEditDialog(id) ==
    /\ ~form.dialogOpen
    /\ ~pages.state.loading
    /\ id \in Range(pages.state.transactions) \cap DOMAIN form.rows
    /\ Len(form.fetching) + 1 < MaxFetching
    /\ LET transaction == form.rows[id]
           after == [customer_id |-> transaction.customer_id,
                     project_id |-> transaction.project_id,
                     transaction_type |-> transaction.transaction_type,
                     fund_source |-> transaction.fund_source,
                     amount |-> ToString(transaction.amount)]
       IN  FormStep([form EXCEPT
                        !.editingTransaction = Some(id),
                        !.formData = after,
                        !.dialogOpen = TRUE,
                        !.fetching = CustomerEffect(
                                        Append(@, transaction.customer_id),
                                        form.formData, after)],
                    pages.state.projects)

\* fetchProjectsByCustomer(customerId) settles: setProjects(data || []) unless
\* the query failed.
FetchProjectsByCustomer(i, ok) ==
    /\ i \in DOMAIN form.fetching
    /\ LET customerId == form.fetching[i]
           data == {p \in DOMAIN projects : projects[p].customer_id = customerId}
       IN  FormStep([form EXCEPT !.fetching = Without(@, i)],
                    IF ok THEN data ELSE pages.state.projects)

\* handleSubmit up to the await: the request carries the formData of the
\* moment, as an update of the transaction being edited or as an insert.
FormHandleSubmit ==
    /\ pages.route = "Transactions"
    /\ form.dialogOpen
    /\ TransactionsHandleSubmit(form.editingTransaction, form.formData)

\* handleSubmit after a request that succeeded: setDialogOpen(false);
\* resetForm(); fetchTransactions()
FormSubmitted ==
    /\ form.answered < mutations
    /\ pages.route = "Transactions"
    /\ form' = ResetForm([form EXCEPT !.dialogOpen = FALSE,
                                      !.answered = @ + 1])
    /\ pages' = [pages EXCEPT !.state.projects = {},
                              !.pending = @ \cup {"fetchTransactions"}]
    /\ UNCHANGED <<tables, next_id, mutations, lastMutation, office, sessions,
                   overlapped, scanned, auth>>

----------------------------------------------------------------------------
(* Specifications *)

\* The behaviours explored create, modify and remove at most `max` rows: a
\* request that does so needs room for one, and leaves the total within the bound.
Room(max) == Work < max
Bounded(max) == Work' <= max

\* Every request of the store and the pages.
Next ==
    \/ Room(MaxWork) /\ CreateCustomer
    \/ \E id \in Listed("customers") :
          Room(MaxWork) /\ DeleteCustomer(id) /\ Bounded(MaxWork)
    \/ \E input \in SuppliedProjects : Room(MaxWork) /\ InsertProject(input)
    \/ \E e \in {None} \cup {Some(id) : id \in Listed("projects")},
          formData \in ProjectForms :
             ProjectsHandleSubmit(e, formData) /\ Bounded(MaxWork)
    \/ \E id \in Listed("projects") :
          Room(MaxWork) /\ ProjectsHandleDelete(id) /\ Bounded(MaxWork)
    \/ \E e \in {None} \cup {Some(id) : id \in Listed("transactions")},
          formData \in TransactionForms :
             Room(MaxWork) /\ TransactionsHandleSubmit(e, formData)
    \/ \E id \in Listed("transactions") :
          Room(MaxWork) /\ TransactionsHandleDelete(id)

Spec == Init /\ [][Next]_vars

\* Creations only: customers, projects and transactions are created, nothing
\* is edited or removed.
CreateNext ==
    \/ Room(MaxCreateWork) /\ CreateCustomer
    \/ \E formData \in ProjectForms :
          Room(MaxCreateWork) /\ ProjectsHandleSubmit(None, formData)
    \/ \E formData \in TransactionForms :
          Room(MaxCreateWork) /\ TransactionsHandleSubmit(None, formData)

CreateSpec == Init /\ [][CreateNext]_vars

\* Creations, and removals of transactions.
ReplayNext ==
    \/ Room(MaxReplayWork) /\ CreateCustomer
    \/ \E formData \in ProjectForms :
          Room(MaxReplayWork) /\ ProjectsHandleSubmit(None, formData)
    \/ \E formData \in TransactionForms :
          Room(MaxReplayWork) /\ TransactionsHandleSubmit(None, formData)
    \/ \E id \in Listed("transactions") :
          Room(MaxReplayWork) /\ TransactionsHandleDelete(id)

ReplaySpec == Init /\ [][ReplayNext]_vars

\* The statements started so far in the behaviours with sessions: Work, the
\* inserts in progress or rolled back, and the other statements in progress.
ConcurrentWork ==
    Work
    + (next_id.transactions
       - Cardinality({i \in DOMAIN activity_log :
                        "transaction_type" \in DOMAIN activity_log[i].data}))
    + Cardinality({s \in Sessions : /\ sessions[s].pc # "idle"
                                    /\ sessions[s].op # "INSERT"})

ConcurrentRoom == ConcurrentWork < MaxConcurrentWork

\* The forms the two clients submit: a positive amount of either type, or the
\* Amount input left empty.
SessionForms == {formData \in TransactionForms : formData.amount \in {"1", ""}}

\* The form the projects of these behaviours are created with.
SessionProjectForms == {formData \in ProjectForms : formData.estimated_total = "2"}

\* Two clients of the Transactions page at once: customers and projects are
\* created, and the statements of the two sessions interleave, commit or are
\* rolled back.
ConcurrentNext ==
    \/ ConcurrentRoom /\ CreateCustomer
    \/ \E formData \in SessionProjectForms :
          ConcurrentRoom /\ ProjectsHandleSubmit(None, formData)
    \/ \E s \in Sessions,
          e \in {None} \cup {Some(id) : id \in Listed("transactions")},
          formData \in SessionForms :
             ConcurrentRoom /\ TransactionsSessionSubmit(s, e, formData)
    \/ \E s \in Sessions, id \in Listed("transactions") :
          ConcurrentRoom /\ TransactionsSessionDelete(s, id)
    \/ \E s \in Sessions : SessionTrigger(s)
    \/ \E s \in Sessions : SessionCommit(s)
    \/ \E s \in Sessions : SessionAbort(s)

ConcurrentSpec == Init /\ [][ConcurrentNext]_vars

\* The rows created so far, of every table, and the transaction rows created,
\* modified and removed.
OfficeWork ==
    next_id.customers + next_id.projects + next_id.employees
    + next_id.petty_cash_advance + mutations

OfficeRoom == OfficeWork < MaxOfficeWork

\* The forms the office behaviours are driven with.
OfficeProjectForms == {formData \in ProjectForms : formData.estimated_total = "2"}

OfficeProjectEdits == {formData \in ProjectForms : formData.estimated_total = "1"}

OfficeTransactionForms ==
    {formData \in TransactionForms :
        formData.amount = "1" /\ formData.transaction_type = "credit"}

\* Every request of the store and the pages, those about the employees and
\* their advances included.
OfficeNext ==
    \/ OfficeRoom /\ CreateCustomer
    \/ \E id \in Listed("customers") : OfficeRoom /\ DeleteCustomer(id)
    \/ \E formData \in OfficeProjectForms :
          OfficeRoom /\ ProjectsHandleSubmit(None, formData)
    \/ \E id \in Listed("projects"), formData \in OfficeProjectEdits :
          OfficeRoom /\ ProjectsHandleSubmit(Some(id), formData)
    \/ \E id \in Listed("projects") : OfficeRoom /\ ProjectsHandleDelete(id)
    \/ \E e \in {None} \cup {Some(id) : id \in Listed("transactions")},
          formData \in OfficeTransactionForms :
             OfficeRoom /\ TransactionsHandleSubmit(e, formData)
    \/ \E id \in Listed("transactions") :
          OfficeRoom /\ TransactionsHandleDelete(id)
    \/ \E input \in LinkedTransactions : OfficeRoom /\ InsertTransaction(input)
    \/ OfficeRoom /\ CreateEmployee
    \/ \E id \in Listed("employees") : OfficeRoom /\ DeleteEmployee(id)
    \/ \E id \in Listed("petty_cash_advance") : OfficeRoom /\ DeleteAdvance(id)
    \/ \E formData \in AdvanceForms : OfficeRoom /\ PettyCashHandleSubmit(formData)
    \/ \E id \in Listed("petty_cash_advance"), completeData \in CompleteForms :
          PettyCashHandleComplete(id, completeData)

OfficeSpec == Init /\ [][OfficeNext]_vars

\* The rows the dashboard behaviours create.
DashboardWork == next_id.customers + next_id.projects + next_id.transactions

DashboardRoom == DashboardWork < MaxDashboardWork

DashboardProjectForms == {formData \in ProjectForms : formData.estimated_total = "2"}

\* Transactions: formData with either type and either fund source.
DashboardTransactionForms ==
    [customer_id : Listed("customers"),
     project_id : Listed("projects"),
     transaction_type : transaction_type,
     fund_source : fund_source,
     amount : {"1", "2"}]

\* The ways fetchDashboardData ends in these behaviours: every query returns its
\* rows, the scan of the transactions fails, or a request throws.
DashboardSettles ==
    {outcome \in DashboardOutcomes :
        \/ \A q \in DOMAIN outcome : outcome[q] = (q # "threw")
        \/ \A q \in DOMAIN outcome : outcome[q] = (q \notin {"threw", "transactions"})
        \/ \A q \in DOMAIN outcome : outcome[q]}

\* fetchDashboardData settles, the transactions scanned in any order.
DashboardSettle ==
    \E outcome \in DashboardSettles,
       order \in Orders(DOMAIN transactions),
       top \in Orders(ActiveProjects),
       startOfMonth \in 1 .. next_id.transactions + 1 :
          FetchDashboardData(outcome, order, top, startOfMonth)

\* The dashboard is opened while transactions of both fund sources are
\* recorded.
DashboardNext ==
    \/ DashboardRoom /\ CreateCustomer
    \/ \E formData \in DashboardProjectForms :
          DashboardRoom /\ ProjectsHandleSubmit(None, formData)
    \/ \E formData \in DashboardTransactionForms :
          DashboardRoom /\ TransactionsHandleSubmit(None, formData)
    \/ \E user \in {None} \cup {Some(u) : u \in Users} : AuthStateChange(user)
    \/ Navigate("Dashboard", Dashboard)
    \/ DashboardSettle

DashboardSpec == Init /\ [][DashboardNext]_vars

\* The rows the page behaviours create.
PagesWork == next_id.customers + next_id.projects + next_id.transactions

PagesRoom == PagesWork < MaxPagesWork

PagesProjectForms == {formData \in ProjectForms : formData.estimated_total = "2"}

PagesTransactionForms ==
    {formData \in TransactionForms :
        formData.amount = "1" /\ formData.transaction_type = "credit"}

\* Some fetch of the page shown settles, with its rows or with an error.
PagesSettle ==
    \/ DashboardSettle
    \/ \E ok \in BOOLEAN : ProjectsFetchProjects(ok)
    \/ \E ok \in BOOLEAN : ProjectsFetchCustomers(ok)
    \/ \E ok \in BOOLEAN : TransactionsFetchTransactions(ok)
    \/ \E ok \in BOOLEAN : TransactionsFetchCustomers(ok)
    \/ \E ok \in BOOLEAN : PettyCashFetchAdvances(ok)
    \/ \E ok \in BOOLEAN : PettyCashFetchEmployees(ok)
    \/ \E ok \in BOOLEAN : PettyCashFetchProjects(ok)
    \/ \E ok \in BOOLEAN : ProjectDetailsFetchProjectDetails(ok)
    \/ \E ok \in BOOLEAN : ProjectDetailsFetchTransactions(ok)

\* A client goes from page to page while rows are created; each fetch settles
\* with its rows or with an error.
PagesNext ==
    \/ PagesRoom /\ CreateCustomer
    \/ \E formData \in PagesProjectForms :
          PagesRoom /\ ProjectsHandleSubmit(None, formData)
    \/ \E formData \in PagesTransactionForms :
          PagesRoom /\ TransactionsHandleSubmit(None, formData)
    \/ \E user \in {None} \cup {Some(u) : u \in Users} : AuthStateChange(user)
    \/ \E ok \in BOOLEAN : LayoutHandleLogout(ok)
    \/ Navigate("Auth", <<>>)
    \/ Navigate("Dashboard", Dashboard)
    \/ Navigate("Projects", Projects)
    \/ Navigate("Transactions", Transactions)
    \/ Navigate("PettyCash", PettyCash)
    \/ \E id \in Listed("projects") : Navigate("ProjectDetails", ProjectDetails(id))
    \/ PagesSettle

\* Every request a page sends is answered, with rows or with an error: each
\* fetch that is awaited settles.
PagesSpec ==
    /\ Init /\ [][PagesNext]_vars
    /\ WF_vars(DashboardSettle)
    /\ WF_vars(\E ok \in BOOLEAN : ProjectsFetchProjects(ok))
    /\ WF_vars(\E ok \in BOOLEAN : ProjectsFetchCustomers(ok))
    /\ WF_vars(\E ok \in BOOLEAN : TransactionsFetchTransactions(ok))
    /\ WF_vars(\E ok \in BOOLEAN : TransactionsFetchCustomers(ok))
    /\ WF_vars(\E ok \in BOOLEAN : PettyCashFetchAdvances(ok))
    /\ WF_vars(\E ok \in BOOLEAN : PettyCashFetchEmployees(ok))
    /\ WF_vars(\E ok \in BOOLEAN : PettyCashFetchProjects(ok))
    /\ WF_vars(\E ok \in BOOLEAN : ProjectDetailsFetchProjectDetails(ok))
    /\ WF_vars(\E ok \in BOOLEAN : ProjectDetailsFetchTransactions(ok))

\* Projects: formData, the Estimated Total input holding any number the
\* control accepts: negative, zero or positive.
SignedProjectForms ==
    [customer_id : Listed("customers"),
     estimated_total : {"-1", "0", "1"},
     status : FormStatuses]

\* The rows the project behaviours create.
ProjectsWork == next_id.customers + next_id.projects

\* Projects are created, edited and deleted through the Projects page.
ProjectsNext ==
    \/ ProjectsWork < MaxProjectsWork /\ CreateCustomer
    \/ \E formData \in SignedProjectForms :
          ProjectsWork < MaxProjectsWork /\ ProjectsHandleSubmit(None, formData)
    \/ \E id \in Listed("projects"), formData \in SignedProjectForms :
          ProjectsHandleSubmit(Some(id), formData)
    \/ \E id \in Listed("projects") : ProjectsHandleDelete(id)

ProjectsSpec == Init /\ [][ProjectsNext]_vars

\* The rows the edit behaviours create, and the modifications they make.
EditWork == next_id.customers + next_id.projects + mutations

\* Transactions of either type and fund source are created and modified
\* through the Transactions page.
EditNext ==
    \/ EditWork < MaxEditWork /\ CreateCustomer
    \/ \E formData \in DashboardProjectForms :
          EditWork < MaxEditWork /\ ProjectsHandleSubmit(None, formData)
    \/ \E formData \in DashboardTransactionForms :
          EditWork < MaxEditWork /\ TransactionsHandleSubmit(None, formData)
    \/ \E id \in Listed("transactions"), formData \in DashboardTransactionForms :
          EditWork < MaxEditWork /\ TransactionsHandleSubmit(Some(id), formData)

EditSpec == Init /\ [][EditNext]_vars

\* The rows the form behaviours create, and the transactions they submit.
FormWork == next_id.customers + next_id.projects + mutations

FormRoom == FormWork < MaxFormWork

FormProjectForms == {formData \in ProjectForms : formData.estimated_total = "2"}

\* A signed-in user on the Transactions page, working its dialog while the
\* page's fetches and the project-list fetches settle in any order.
FormNext ==
    \/ next_id.customers < MaxFormCustomers /\ FormRoom /\ CreateCustomer
    \/ \E formData \in FormProjectForms :
          /\ next_id.projects < MaxFormProjects /\ FormRoom
          /\ ProjectsHandleSubmit(None, formData)
    \/ \E user \in Users : AuthStateChange(Some(user))
    \/ Navigate("Transactions", Transactions)
    \/ \E ok \in BOOLEAN : TransactionsFetchTransactions(ok)
    \/ \E ok \in BOOLEAN : TransactionsFetchCustomers(ok)
    \/ FormOpenDialog
    \/ FormCloseDialog
    \/ FormCancel
    \/ \E value \in Listed("customers") : FormSelectCustomer(value)
    \/ \E value \in Listed("projects") : FormSelectProject(value)
    \/ FormChangeAmount("1")
    \/ \E id \in Listed("transactions") : FormOpenEditDialog(id)
    \/ \E i \in 1 .. MaxFetching, ok \in BOOLEAN : FetchProjectsByCustomer(i, ok)
    \/ FormRoom /\ FormHandleSubmit
    \/ FormSubmitted

FormSpec == Init /\ [][FormNext]_vars

\* The rows the behaviours of the project details page create.
DetailsWork == next_id.customers + next_id.projects + mutations

DetailsRoom == DetailsWork < MaxDetailsWork

DetailsProjectForms == {formData \in ProjectForms : formData.estimated_total = "2"}

DetailsTransactionForms ==
    {formData \in DashboardTransactionForms :
        formData.amount = "1" /\ formData.fund_source = "bank"}

\* A signed-in user goes between the list of projects and the details of a
\* project while transactions of either type are recorded and the fetches of
\* the details page settle, with their rows or with an error.
DetailsNext ==
    \/ DetailsRoom /\ CreateCustomer
    \/ \E formData \in DetailsProjectForms :
          DetailsRoom /\ ProjectsHandleSubmit(None, formData)
    \/ \E formData \in DetailsTransactionForms :
          DetailsRoom /\ TransactionsHandleSubmit(None, formData)
    \/ \E user \in Users : AuthStateChange(Some(user))
    \/ Navigate("Projects", Projects)
    \/ \E id \in Listed("projects") : Navigate("ProjectDetails", ProjectDetails(id))
    \/ \E ok \in BOOLEAN : ProjectsFetchProjects(ok)
    \/ \E ok \in BOOLEAN : ProjectsFetchCustomers(ok)
    \/ \E ok \in BOOLEAN : ProjectDetailsFetchProjectDetails(ok)
    \/ \E ok \in BOOLEAN : ProjectDetailsFetchTransactions(ok)

DetailsSpec == Init /\ [][DetailsNext]_vars

----------------------------------------------------------------------------
(* Properties *)

\* The rows of `txs` recorded against project p with the given type.
RowsOf(txs, p, type) ==
    {t \in DOMAIN txs : txs[t].project_id = p /\ txs[t].transaction_type = type}

Amounts(txs) == [t \in DOMAIN txs |-> txs[t].amount]

\* estimated_total - (sum of credit amounts) + (sum of debit amounts) of project p.
ExpectedRemaining(p) ==
    projects[p].estimated_total
    - Sum(Amounts(transactions), RowsOf(transactions, p, "credit"))
    + Sum(Amounts(transactions), RowsOf(transactions, p, "debit"))

\* The balance invariant of the data model.
Balanced(p) == projects[p].remaining_amount = ExpectedRemaining(p)

\* C1: after any sequence of transaction creates against freshly created
\* projects, each project's remaining_amount is its estimated_total minus the
\* credits created plus the debits created. Checked under CreateSpec, whose
\* behaviours only create.
C1_CreatesKeepBalance ==
    \A p \in DOMAIN projects :
        projects[p].remaining_amount
        + Sum(Amounts(transactions), RowsOf(transactions, p, "credit"))
        = projects[p].estimated_total
          + Sum(Amounts(transactions), RowsOf(transactions, p, "debit"))

\* A project that received a credit and a debit of positive amounts, and a
\* third transaction.
C1_Witness ==
    \E p \in DOMAIN projects :
        /\ \E t \in RowsOf(transactions, p, "credit") : transactions[t].amount > 0
        /\ \E t \in RowsOf(transactions, p, "debit") : transactions[t].amount > 0
        /\ Cardinality({t \in DOMAIN transactions : transactions[t].project_id = p}) >= 3

\* C2: in every reachable state every project's remaining_amount is its
\* estimated_total minus the credits plus the debits currently recorded against
\* it, whatever projects and transactions were created, edited and removed.
C2_BalanceInvariant ==
    \A p \in DOMAIN projects : Balanced(p)


\* The requests that create a project: those of the project form, which name
\* no remaining_amount, and those that name one.
ProjectInputs ==
    SuppliedProjects
    \cup [customer_id : Listed("customers"),
          estimated_total : {Some(1), Some(2)},
          status : FormStatuses,
          remaining_amount : {None}]

\* C3: creating a project stores remaining_amount equal to the supplied
\* estimated_total, whatever remaining_amount the request names or omits, and
\* stores the other fields as supplied.
C3_CreateForcesRemaining ==
    [][\A input \in ProjectInputs :
          (InsertProject(input) /\ projects' # projects) =>
             LET id == next_id.projects + 1 IN
             /\ DOMAIN projects' = DOMAIN projects \cup {id}
             /\ projects'[id] = [id |-> id,
                                 customer_id |-> input.customer_id,
                                 estimated_total |-> input.estimated_total[1],
                                 remaining_amount |-> input.estimated_total[1],
                                 status |-> input.status]
             /\ \A p \in DOMAIN projects : projects'[p] = projects[p]]_vars

\* A project just created, whose balance is neither the column default nor a
\* remaining_amount a request named together with that estimated_total.
C3_Witness ==
    /\ mutations = 0
    /\ \E p \in DOMAIN projects :
          /\ projects[p].remaining_amount = 2
          /\ projects[p].estimated_total = 2

\* The effect of a stored transaction row on its project's balance.
Effect(row) ==
    IF row.transaction_type = "credit" THEN -row.amount ELSE row.amount

\* C4: creating a transaction changes the remaining_amount of the project it
\* names by exactly -amount for a credit and +amount for a debit.
C4_CreateAppliesDelta ==
    [][\A t \in DOMAIN transactions' \ DOMAIN transactions :
          LET p == transactions'[t].project_id IN
          /\ p \in DOMAIN projects /\ p \in DOMAIN projects'
          /\ projects'[p].remaining_amount
                = projects[p].remaining_amount
                  + (IF transactions'[t].transaction_type = "credit"
                     THEN -transactions'[t].amount
                     ELSE transactions'[t].amount)]_vars

\* A credit of a positive amount was just created against a project that holds
\* another transaction already.
C4_Witness ==
    /\ lastMutation.op = "insert"
    /\ lastMutation.transaction_id \in DOMAIN transactions
    /\ LET new == transactions[lastMutation.transaction_id] IN
       /\ new.transaction_type = "credit"
       /\ new.amount > 0
       /\ \E t \in DOMAIN transactions :
             /\ t # new.id
             /\ transactions[t].project_id = new.project_id
       /\ projects[new.project_id].remaining_amount
             = lastMutation.before - new.amount

\* The step modifies the one transaction row t (the trigger fired for an UPDATE).
Modifies(t) ==
    /\ mutations' = mutations + 1
    /\ lastMutation'.op = "update"
    /\ lastMutation'.transaction_id = t
    /\ t \in DOMAIN transactions /\ t \in DOMAIN transactions'

\* C5: modifying a transaction without changing its project adjusts that
\* project once, by the reversal of the old effect plus the new effect: the
\* balance becomes what it would be had the row been created with the new type
\* and amount.
C5_ModifyNetsOldAndNew ==
    [][\A t \in DOMAIN transactions :
          (Modifies(t) /\ transactions'[t].project_id = transactions[t].project_id) =>
             LET p == transactions[t].project_id IN
             /\ projects'[p].remaining_amount
                   = (projects[p].remaining_amount - Effect(transactions[t]))
                     + Effect(transactions'[t])
             /\ Len(activity_log') = Len(activity_log) + 1]_vars

\* A transaction was just modified from a debit to a credit of another amount,
\* on the same project.
C5_Witness ==
    /\ lastMutation.op = "update"
    /\ Len(activity_log) >= 2
    /\ LET entry == activity_log[Len(activity_log)].data
           t == lastMutation.transaction_id
       IN  /\ t \in DOMAIN transactions
           /\ transactions[t].transaction_type = "credit"
           /\ entry.old_amount # entry.new_amount
           /\ entry.amount_change = -entry.old_amount - entry.new_amount
           /\ \E i \in 1 .. Len(activity_log) - 1 :
                 /\ activity_log[i].data.transaction_id = t
                 /\ activity_log[i].data.project_id = transactions[t].project_id
                 /\ "transaction_type" \in DOMAIN activity_log[i].data
                 /\ activity_log[i].data.transaction_type = "debit"


\* C6: when a modification moves a transaction to another project, the old
\* project takes the reversal of the old effect and the new project takes the
\* new effect, so both stay balanced.
C6_MoveAdjustsBothProjects ==
    [][\A t \in DOMAIN transactions, from \in DOMAIN projects, to \in DOMAIN projects :
          (/\ Modifies(t)
           /\ from = transactions[t].project_id
           /\ to = transactions'[t].project_id
           /\ from # to) =>
             /\ projects'[from].remaining_amount
                   = projects[from].remaining_amount - Effect(transactions[t])
             /\ projects'[to].remaining_amount
                   = projects[to].remaining_amount + Effect(transactions'[t])
             /\ (Balanced(from) /\ Balanced(to))
                   => (Balanced(from)' /\ Balanced(to)')]_vars

\* The transaction rows of project p that the step removes.
Removed(p) ==
    {t \in DOMAIN transactions \ DOMAIN transactions' :
        transactions[t].project_id = p}

Reversals(txs) == [t \in DOMAIN txs |-> -Effect(txs[t])]

\* C7: removing a transaction changes the remaining_amount of the project it
\* belonged to by exactly +amount for a credit and -amount for a debit.
C7_RemoveReversesEffect ==
    [][\A p \in DOMAIN projects \cap DOMAIN projects' :
          Removed(p) # {} =>
             projects'[p].remaining_amount
                = projects[p].remaining_amount
                  + Sum(Reversals(transactions), Removed(p))]_vars

\* A credit of a positive amount was just removed from a project that is still
\* there, and holds a debit.
C7_Witness ==
    /\ lastMutation.op = "delete"
    /\ lastMutation.transaction_id \notin DOMAIN transactions
    /\ LET entry == activity_log[Len(activity_log)].data IN
       /\ entry.transaction_id = lastMutation.transaction_id
       /\ entry.amount_change = entry.amount
       /\ entry.amount > 0
       /\ entry.project_id \in DOMAIN projects
       /\ RowsOf(transactions, entry.project_id, "debit") # {}

\* C8: creating a transaction and removing it right away returns the project's
\* remaining_amount to its value before the create, however often the pair is
\* replayed. Checked under ReplaySpec, whose behaviours create and remove.
C8_CreateThenRemoveRestores ==
    [][\A t \in DOMAIN transactions \ DOMAIN transactions' :
          (lastMutation.op = "insert" /\ lastMutation.transaction_id = t) =>
             LET p == transactions[t].project_id IN
             p \in DOMAIN projects' =>
                projects'[p].remaining_amount = lastMutation.before]_vars

\* Entry i of the log records the creation, resp. the removal, of transaction t
\* of project p.
LogsInsert(i, t, p) ==
    LET data == activity_log[i].data IN
    /\ "transaction_type" \in DOMAIN data
    /\ data.transaction_id = t /\ data.project_id = p /\ data.amount > 0

LogsDelete(i, t, p) ==
    LET data == activity_log[i].data IN
    /\ "operation" \in DOMAIN data
    /\ data.transaction_id = t /\ data.project_id = p

\* The pair was played twice in a row on a fresh project, with positive
\* amounts of both types, and the balance is the estimated total again.
C8_Witness ==
    /\ Len(activity_log) = 4
    /\ \E p \in DOMAIN projects :
          /\ LogsInsert(1, 1, p) /\ LogsDelete(2, 1, p)
          /\ LogsInsert(3, 2, p) /\ LogsDelete(4, 2, p)
          /\ activity_log[1].data.transaction_type
                # activity_log[3].data.transaction_type
          /\ projects[p].remaining_amount = projects[p].estimated_total

\* C9: every create, modify and remove of a transaction row adds exactly one
\* activity_log row, so the log holds as many rows as mutations were performed.
C9_OneLogRowPerMutation ==
    Len(activity_log) = mutations

\* A create, a modify and a remove were performed and logged.
C9_Witness ==
    /\ mutations >= 3
    /\ \E i, j, k \in 1 .. Len(activity_log) :
          /\ "transaction_type" \in DOMAIN activity_log[i].data
          /\ "old_amount" \in DOMAIN activity_log[j].data
          /\ "operation" \in DOMAIN activity_log[k].data

\* The log rows the step appends.
Appended ==
    {i \in 1 .. Len(activity_log') : i > Len(activity_log)}

C11_MissingProjectAborts ==
    [][/\ \A i \in Appended :
             activity_log'[i].data.project_id \in DOMAIN projects'
       /\ \A t \in DOMAIN transactions \ DOMAIN transactions' :
             transactions[t].project_id \in DOMAIN projects']_vars

\* Session s commits in this step.
Commits(s) ==
    /\ sessions[s].pc = "adjusted"
    /\ sessions'[s].pc = "idle"
    /\ mutations' = mutations + 1

\* C12: when statements of two sessions on the same project overlap, none of
\* the deltas is lost: each commit adds the delta of its statement to the
\* balance the project has at that moment, and the delta is the one of the row
\* as it is at that moment, as if the statements had run one after the other.
\* Checked under ConcurrentSpec.
C12_NoLostUpdate ==
    [][\A s \in Sessions :
          Commits(s) =>
             LET session == sessions[s]
                 p == Target(session)
             IN  /\ p \in DOMAIN projects =>
                       projects'[p].remaining_amount
                          = projects[p].remaining_amount
                            + session.entry.data.amount_change
                 /\ session.op # "INSERT" =>
                       /\ session.old.id \in DOMAIN transactions
                       /\ transactions[session.old.id] = session.old]_vars

\* The changes the log records for project p.
LoggedChanges(p) ==
    Sum([i \in DOMAIN activity_log |-> activity_log[i].data.amount_change],
        {i \in DOMAIN activity_log : activity_log[i].data.project_id = p})

\* Two statements overlapped on one project, both committed with a change that
\* is not zero, and the balance holds both.
C12_Witness ==
    /\ overlapped
    /\ \A s \in Sessions : sessions[s].pc = "idle"
    /\ Len(activity_log) >= 2
    /\ LET n == Len(activity_log)
           p == activity_log[n].data.project_id
       IN  /\ activity_log[n - 1].data.project_id = p
           /\ activity_log[n].data.amount_change # 0
           /\ activity_log[n - 1].data.amount_change # 0
           /\ p \in DOMAIN projects
           /\ projects[p].remaining_amount
                 = projects[p].estimated_total + LoggedChanges(p)

\* The log rows about transaction t, and the last of them.
EntriesOf(t) ==
    {i \in DOMAIN activity_log : activity_log[i].data.transaction_id = t}

LastEntryOf(t) ==
    activity_log[CHOOSE i \in EntriesOf(t) : \A j \in EntriesOf(t) : j <= i].data

\* The amount a log row leaves the transaction with.
LoggedAmount(data) ==
    IF "new_amount" \in DOMAIN data THEN data.new_amount ELSE data.amount

\* C13: the committed tables, which are what a concurrent reader sees and what
\* survives a rollback or a crash, never hold a transaction change without its
\* adjustment and log row, nor an adjustment or log row without the change:
\* every transaction row is the one its last log row describes, every
\* transaction the log last saw alive has its row, and every balance is the
\* initial one plus the logged changes. Checked under ConcurrentSpec.
C13_MutationIsAtomic ==
    /\ \A t \in DOMAIN transactions :
          /\ EntriesOf(t) # {}
          /\ "operation" \notin DOMAIN LastEntryOf(t)
          /\ LoggedAmount(LastEntryOf(t)) = transactions[t].amount
          /\ LastEntryOf(t).project_id = transactions[t].project_id
    /\ \A i \in DOMAIN activity_log :
          LET t == activity_log[i].data.transaction_id IN
          "operation" \notin DOMAIN LastEntryOf(t) => t \in DOMAIN transactions
    /\ \A p \in DOMAIN projects :
          projects[p].remaining_amount
             = projects[p].estimated_total + LoggedChanges(p)

\* A statement is in progress with its trigger run, another was rolled back
\* after writing its row, and a third has committed a change.
C13_Witness ==
    /\ \E s \in Sessions : sessions[s].pc = "adjusted"
                           /\ sessions[s].entry.data.amount_change # 0
    /\ next_id.transactions > Cardinality(DOMAIN transactions) + 1
    /\ \E i \in DOMAIN activity_log : activity_log[i].data.amount_change # 0
    /\ \A i \in DOMAIN activity_log : "operation" \notin DOMAIN activity_log[i].data

\* C14: the activity log is append-only: whatever the request (on
\* transactions, projects, customers, employees or advances, cascades
\* included), the log before the step is a prefix of the log after it.
\* Checked under OfficeSpec.
C14_LogIsAppendOnly ==
    [][/\ Len(activity_log') >= Len(activity_log)
       /\ SubSeq(activity_log', 1, Len(activity_log)) = activity_log]_vars

\* The log holds the row of a create, the row of a delete cascaded from a
\* project that is gone and the row of a link cleared with an employee that is
\* gone.
C14_Witness ==
    /\ next_id.projects > Cardinality(DOMAIN projects)
    /\ next_id.employees > Cardinality(employees)
    /\ \E i, j, k \in DOMAIN activity_log :
          /\ i < j /\ i < k
          /\ "transaction_type" \in DOMAIN activity_log[i].data
          /\ "operation" \in DOMAIN activity_log[j].data
          /\ activity_log[j].data.project_id \notin DOMAIN projects
          /\ "old_amount" \in DOMAIN activity_log[k].data

\* C15: remaining_amount is written by the two triggers only: a step that
\* mutates no transaction row leaves the remaining_amount of every project it
\* keeps as it was (so no request of the pages carries a remaining_amount the
\* store would apply), and a project that appears has the remaining_amount the
\* initializer gives it. Checked under OfficeSpec.
C15_OnlyTriggersWriteRemaining ==
    [][/\ mutations' = mutations =>
             \A p \in DOMAIN projects \cap DOMAIN projects' :
                projects'[p].remaining_amount = projects[p].remaining_amount
       /\ \A p \in DOMAIN projects' \ DOMAIN projects :
             projects'[p].remaining_amount = projects'[p].estimated_total]_vars

\* No transaction was ever written, a project created with one total was
\* edited to another, and an advance was created and completed.
C15_Witness ==
    /\ mutations = 0
    /\ \E p \in DOMAIN projects :
          projects[p].estimated_total # projects[p].remaining_amount
    /\ \E a \in DOMAIN petty_cash_advance :
          petty_cash_advance[a].status = "closed"

\* C16: deleting a customer deletes its projects and transactions, and deleting
\* a project deletes its transactions: in every reachable state every
\* transaction references a project and a customer that exist, and every
\* project references a customer that exists. Checked under OfficeSpec.
C16_ReferencesExist ==
    /\ \A t \in DOMAIN transactions :
          /\ transactions[t].project_id \in DOMAIN projects
          /\ transactions[t].customer_id \in customers
    /\ \A p \in DOMAIN projects :
          projects[p].customer_id \in customers

\* The only customer ever created is gone, and with it its project and the
\* transaction of that project, whose removal the log records.
C16_Witness ==
    /\ next_id.customers = 1 /\ customers = {}
    /\ next_id.projects = 1 /\ projects = <<>>
    /\ next_id.transactions = 1 /\ transactions = <<>>
    /\ Len(activity_log) = 2
    /\ "operation" \in DOMAIN activity_log[2].data
    /\ lastMutation.op = "delete"

\* The advances of employee e.
AdvancesOf(e) ==
    {a \in DOMAIN petty_cash_advance : petty_cash_advance[a].employee_id = e}

\* C17: deleting an employee deletes the employee's advances, and every
\* transaction linked to the employee or to one of those advances stays, the
\* same but for the link, which is null. Checked under OfficeSpec.
C17_EmployeeDeleteNullsLinks ==
    [][\A e \in employees \ employees' :
          /\ \A a \in AdvancesOf(e) : a \notin DOMAIN petty_cash_advance'
          /\ \A t \in DOMAIN transactions :
                LET row == transactions[t]
                    toEmployee == row.related_employee_id = Some(e)
                    toAdvance == \E a \in AdvancesOf(e) : row.related_advance_id = Some(a)
                IN  (toEmployee \/ toAdvance) =>
                       /\ t \in DOMAIN transactions'
                       /\ transactions'[t] =
                             [row EXCEPT
                                !.related_employee_id =
                                   IF toEmployee THEN None ELSE @,
                                !.related_advance_id =
                                   IF toAdvance THEN None ELSE @]]_vars

\* An employee is gone with its advance, and a transaction that was created
\* with links to both is still there, with no link; the log has the rows of the
\* two updates that cleared them.
C17_Witness ==
    /\ next_id.employees > Cardinality(employees)
    /\ next_id.petty_cash_advance > Cardinality(DOMAIN petty_cash_advance)
    /\ \E t \in DOMAIN transactions :
          /\ transactions[t].fund_source = "cash"
          /\ transactions[t].related_employee_id = None
          /\ transactions[t].related_advance_id = None
          /\ Cardinality({i \in EntriesOf(t) :
                            "old_amount" \in DOMAIN activity_log[i].data}) = 2

\* C18: an advance is created open, and its expense_total, returned_amount and
\* status change only together, to the amounts of a completion that sum to
\* its advance_amount and to status closed: a completion whose amounts do not
\* sum to the advance_amount writes nothing, and a closed advance always has
\* expense_total + returned_amount = advance_amount. Checked under OfficeSpec.
C18_ClosedOnlyWhenSettled ==
    [][\A a \in DOMAIN petty_cash_advance' :
          LET new == petty_cash_advance'[a] IN
          /\ a \notin DOMAIN petty_cash_advance => new.status = "open"
          /\ a \in DOMAIN petty_cash_advance =>
                LET old == petty_cash_advance[a] IN
                /\ new.advance_amount = old.advance_amount
                /\ \/ /\ new.expense_total = old.expense_total
                      /\ new.returned_amount = old.returned_amount
                      /\ new.status = old.status
                   \/ /\ new.status = "closed"
                      /\ new.expense_total + new.returned_amount = old.advance_amount
          /\ new.status = "closed" =>
                new.expense_total + new.returned_amount = new.advance_amount]_vars

\* One advance was completed with an expense and a return that sum to its
\* amount, and another is still open.
C18_Witness ==
    \E a, b \in DOMAIN petty_cash_advance :
        /\ petty_cash_advance[a].status = "closed"
        /\ petty_cash_advance[a].expense_total = 1
        /\ petty_cash_advance[a].returned_amount = 1
        /\ petty_cash_advance[a].advance_amount = 2
        /\ petty_cash_advance[b].status = "open"
        /\ petty_cash_advance[b].expense_total = 0

\* The rows of `txs` paid from or into `fund` with the given type.
FundRows(txs, fund, type) ==
    {t \in DOMAIN txs : txs[t].fund_source = fund /\ txs[t].transaction_type = type}

\* (sum of credit amounts) - (sum of debit amounts) of the fund, over all rows.
Net(fund) ==
    Sum(Amounts(transactions), FundRows(transactions, fund, "credit"))
    - Sum(Amounts(transactions), FundRows(transactions, fund, "debit"))

\* A step in which fetchDashboardData settles having read every transaction.
DashboardRead ==
    /\ pages.route = "Dashboard" /\ pages'.route = "Dashboard"
    /\ pages.pending # {} /\ pages'.pending = {}
    /\ Len(scanned') = Cardinality(DOMAIN transactions)

\* C19: whenever the dashboard has scanned the transactions, in whatever order,
\* its cash-on-hand is max(0, cash credits - cash debits) over all transactions
\* and its bank-balance is max(0, bank credits - bank debits) over all
\* transactions.
C19_TotalsAreClampedNetSums ==
    [][DashboardRead =>
          /\ pages'.state.stats.cashOnHand = Max(0, Net("cash"))
          /\ pages'.state.stats.bankBalance = Max(0, Net("bank"))]_vars

\* The dashboard shows a positive cash-on-hand after a scan that started with a
\* cash debit, so that the running total was negative on the way.
C19_Witness ==
    /\ pages.route = "Dashboard" /\ pages.pending = {}
    /\ Len(scanned) = Cardinality(DOMAIN transactions)
    /\ Len(scanned) >= 2
    /\ scanned[1].fund_source = "cash" /\ scanned[1].transaction_type = "debit"
    /\ pages.state.stats.cashOnHand > 0

\* The page `route`, whenever it shows its loading state, later shows its
\* content or is left.
LoadingIsLeft(route) == LoadingShown(route) ~> ~LoadingShown(route)

\* C20: on every page, whenever the loading state is shown it is eventually
\* left, whether the page's fetches succeed or fail.
C20_LoadingIsLeftOnEveryPage ==
    \A route \in Routes : LoadingIsLeft(route)

\* The forms of the Transactions page with a negative Amount.
NegativeForms ==
    {formData \in TransactionForms :
        \E amount \in Range(parseFloat(formData.amount)) : amount < 0}

\* C21: every stored transaction has amount >= 0, and a create or modify with a
\* negative amount leaves the transactions, the projects and the activity log
\* as they were.
C21_AmountsAreNonNegative ==
    [][/\ \A t \in DOMAIN transactions' : transactions'[t].amount >= 0
       /\ \A e \in {None} \cup {Some(id) : id \in Listed("transactions")},
             formData \in NegativeForms :
                TransactionsHandleSubmit(e, formData)
                => UNCHANGED <<transactions, projects, activity_log>>]_vars

\* A transaction is stored, and a modification of it with a negative amount is
\* a request the store answers by changing nothing.
C21_Witness ==
    /\ \E t \in DOMAIN transactions : transactions[t].amount >= 0
    /\ \E t \in DOMAIN transactions, formData \in NegativeForms :
          /\ ENABLED (TransactionsHandleSubmit(Some(t), formData) /\ UNCHANGED vars)
          /\ ~ENABLED (TransactionsHandleSubmit(Some(t), formData)
                       /\ ~UNCHANGED <<transactions, projects, activity_log>>)
    /\ \E formData \in NegativeForms :
          ~ENABLED (TransactionsHandleSubmit(None, formData)
                    /\ ~UNCHANGED <<transactions, projects, activity_log>>)

\* C22: every stored project has estimated_total >= 0, whatever is entered in
\* the project form on create or edit.
C22_EstimatesAreNonNegative ==
    \A p \in DOMAIN projects : projects[p].estimated_total >= 0

Reconstructed(p) ==
    projects[p].remaining_amount = projects[p].estimated_total + LoggedChanges(p)

\* C24: the log reconstructs the balance of every project whose estimated_total
\* has not been edited since creation: a new project starts reconstructed, and
\* every step that leaves the estimated_total of a reconstructed project alone
\* leaves it reconstructed.
C24_LogReconstructsBalance ==
    [][/\ \A p \in DOMAIN projects' \ DOMAIN projects : Reconstructed(p)'
       /\ \A p \in DOMAIN projects \cap DOMAIN projects' :
             (/\ Reconstructed(p)
              /\ projects'[p].estimated_total = projects[p].estimated_total)
             => Reconstructed(p)']_vars

\* The log holds a create and a modify against one project, both with a change
\* that is not zero, the changes do not cancel, and the balance is the one the
\* log tells.
C24_Witness ==
    \E p \in DOMAIN projects :
       /\ Reconstructed(p)
       /\ LoggedChanges(p) # 0
       /\ \E i, j \in DOMAIN activity_log :
             /\ activity_log[i].data.project_id = p
             /\ activity_log[j].data.project_id = p
             /\ "transaction_type" \in DOMAIN activity_log[i].data
             /\ activity_log[i].data.amount_change # 0
             /\ "old_amount" \in DOMAIN activity_log[j].data
             /\ activity_log[j].data.amount_change # 0

\* The step is the single create or modify, or the single remove, of
\* transaction t through the Transactions page.
Submits(t) ==
    /\ mutations' = mutations + 1
    /\ lastMutation'.transaction_id = t
    /\ \E e \in {None, Some(t)}, formData \in TransactionForms :
          TransactionsHandleSubmit(e, formData)

Deletes(t) ==
    /\ mutations' = mutations + 1
    /\ lastMutation'.transaction_id = t
    /\ TransactionsHandleDelete(t)

\* The project the trigger addresses for the mutation of t in this step.
StepTarget(t) ==
    IF t \in DOMAIN transactions'
    THEN transactions'[t].project_id ELSE transactions[t].project_id

C26_UnchangedAmountLogsZero ==
    [][\A t \in DOMAIN transactions :
          (/\ Modifies(t)
           /\ transactions'[t].amount = transactions[t].amount
           /\ transactions'[t].transaction_type = transactions[t].transaction_type)
          => /\ projects' = projects
             /\ Len(activity_log') = Len(activity_log) + 1
             /\ SubSeq(activity_log', 1, Len(activity_log)) = activity_log
             /\ activity_log'[Len(activity_log')].data.transaction_id = t
             /\ activity_log'[Len(activity_log')].data.amount_change = 0]_vars

\* A cash transaction of a positive amount was just modified, amount and type
\* kept, after it had been created from the bank: the log ends with a row of
\* change 0 and the balance still holds the change of the create.
C26_Witness ==
    /\ lastMutation.op = "update"
    /\ Len(activity_log) = 2
    /\ LET entry == activity_log[2].data
           first == activity_log[1].data
       IN  /\ entry.amount_change = 0
           /\ entry.old_amount = entry.new_amount
           /\ entry.new_amount > 0
           /\ entry.transaction_id = first.transaction_id
           /\ first.amount_change # 0
           /\ entry.transaction_id \in DOMAIN transactions
           /\ transactions[entry.transaction_id].fund_source = "cash"
           /\ projects[entry.project_id].remaining_amount
                 = projects[entry.project_id].estimated_total + first.amount_change

\* The transactions of the project `id`.
TransactionsOf(id) == {t \in DOMAIN transactions : transactions[t].project_id = id}

\* The step deletes the project `id` and no customer.
DeletesProject(id) ==
    /\ id \in DOMAIN projects
    /\ DOMAIN projects' = DOMAIN projects \ {id}
    /\ customers' = customers

\* C27: deleting a project that has N transactions succeeds, removes exactly
\* those N transactions and leaves the remaining_amount of every other project
\* unchanged.
C27_ProjectDeleteRemovesItsTransactions ==
    [][\A id \in DOMAIN projects :
          /\ ENABLED ProjectsHandleDelete(id)
          /\ DeletesProject(id) =>
                /\ DOMAIN transactions' = DOMAIN transactions \ TransactionsOf(id)
                /\ \A t \in DOMAIN transactions' : transactions'[t] = transactions[t]
                /\ \A p \in DOMAIN projects' :
                      projects'[p].remaining_amount = projects[p].remaining_amount]_vars

\* A project that had two transactions was just deleted with them, and another
\* project is still there.
C27_Witness ==
    /\ lastMutation.op = "cascade"
    /\ Len(activity_log) >= 4
    /\ DOMAIN projects # {}
    /\ LET n == Len(activity_log)
           a == activity_log[n].data
           b == activity_log[n - 1].data
       IN  /\ "operation" \in DOMAIN a /\ a.operation = "delete"
           /\ "operation" \in DOMAIN b /\ b.operation = "delete"
           /\ a.project_id = b.project_id
           /\ a.project_id \notin DOMAIN projects
           /\ a.transaction_id # b.transaction_id
           /\ {a.transaction_id, b.transaction_id} \cap DOMAIN transactions = {}

\* The step deletes an employee or a petty-cash advance.
DeletesOfficeRow ==
    \/ employees \ employees' # {}
    \/ DOMAIN petty_cash_advance \ DOMAIN petty_cash_advance' # {}

\* C28: deleting an employee or a petty-cash advance that transactions link
\* to changes no project's remaining_amount: the updates that clear the links
\* fire the trigger with a delta of 0. Checked under OfficeSpec.
C28_LinkClearingKeepsBalances ==
    [][DeletesOfficeRow =>
          /\ DOMAIN projects' = DOMAIN projects
          /\ \A p \in DOMAIN projects :
                projects'[p].remaining_amount = projects[p].remaining_amount
          /\ \A i \in Len(activity_log) + 1 .. Len(activity_log') :
                activity_log'[i].data.amount_change = 0]_vars

\* An advance was deleted and its employee kept: a transaction of a positive
\* amount that linked to both has lost the link to the advance only, the
\* update that cleared it is logged with change 0, and the project still
\* carries the change of the transaction.
C28_Witness ==
    /\ next_id.petty_cash_advance > Cardinality(DOMAIN petty_cash_advance)
    /\ next_id.employees = Cardinality(employees)
    /\ \E t \in DOMAIN transactions :
          LET row == transactions[t] IN
          /\ row.related_employee_id # None
          /\ row.related_advance_id = None
          /\ row.amount > 0
          /\ \E i \in EntriesOf(t) :
                /\ "old_amount" \in DOMAIN activity_log[i].data
                /\ activity_log[i].data.amount_change = 0
          /\ projects[row.project_id].remaining_amount
                = projects[row.project_id].estimated_total + Effect(row)

\* C29: a transaction submitted through the transaction form names a project
\* that belongs to the customer it names, however the customer changes, the
\* project picks, the edit dialog, the resets and the completions of the
\* project-list fetches interleave. Under FormSpec every transaction comes from
\* the form, and no project changes its customer.
C29_SubmittedProjectBelongsToCustomer ==
    \A t \in DOMAIN transactions :
        projects[transactions[t].project_id].customer_id = transactions[t].customer_id

\* C30: on the project details page, whenever the remaining_amount of the
\* project satisfies the balance invariant, the profit displayed equals the sum
\* of the amounts of the project's debits, and is not negative.
C30_ProfitIsSumOfDebits ==
    (/\ pages.route = "ProjectDetails"
     /\ ~LoadingShown("ProjectDetails")
     /\ pages.state.id \in DOMAIN projects
     /\ Balanced(pages.state.id))
    => /\ Profit(pages.state)
             = Sum(Amounts(transactions),
                   RowsOf(transactions, pages.state.id, "debit"))
       /\ Profit(pages.state) >= 0

====
